---- MODULE Spec2Model ----
(***************************************************************************)
(* Model of the wage-tax calculator of brutto-netto-rechner                *)
(* (src/lib/tax-calculator.ts).                                            *)
(*                                                                         *)
(* Units.  The source computes with IEEE doubles; the model computes the   *)
(* same quantities exactly, in integers:                                   *)
(*   - money (bruttoJahr, werbungskosten, contributions, taxes, net) is    *)
(*     held in cents;                                                      *)
(*   - zusatzbeitrag is held in hundredths of a percent (2.9 % = 290);     *)
(*   - kirchensteuerSatz is held in percent (0.09 = 9);                    *)
(*   - an intermediate value that is finer than a cent is a record         *)
(*     [c |-> cents, f |-> numerator of the remaining fraction of a cent   *)
(*     over Frac], with 0 <= f < Frac.                                     *)
(* A JavaScript number that need not be finite (a request field) is a      *)
(* record [kind, v]: kind is "finite", "NaN", "Infinity" or "-Infinity".   *)
(*                                                                         *)
(* Arithmetic.  Products and roundings are taken on the exact decimal      *)
(* values.  The source's binary floating point can land one cent away      *)
(* where a product is exactly half a cent (a contribution of x.xx5 euro);  *)
(* the euro-valued results (lohnsteuer, zuVersteuerndesEinkommen, the      *)
(* allowances) are the same in both.                                       *)
(***************************************************************************)
EXTENDS Integers, Sequences, FiniteSets, TLC

VARIABLES build, input, result, trace

vars == <<build, input, result, trace>>

-----------------------------------------------------------------------------
(* JavaScript numbers of the request *)

Fin(n) == [kind |-> "finite", v |-> n]
NaN == [kind |-> "NaN", v |-> 0]
PosInfinity == [kind |-> "Infinity", v |-> 1]
NegInfinity == [kind |-> "-Infinity", v |-> -1]

\* Number.isFinite(x)
NumberIsFinite(x) == x.kind = "finite"

\* x < 0 (false for NaN and +Infinity, true for -Infinity)
LessThanZero(x) == x.kind # "NaN" /\ x.v < 0

-----------------------------------------------------------------------------
(* Exact arithmetic below the cent *)

Frac == 10000 * 10000

Limb == 100 * 100

Dec(c, f) == [c |-> c, f |-> f]

DecZero == Dec(0, 0)

Min(a, b) == IF a <= b THEN a ELSE b

Max(a, b) == IF a >= b THEN a ELSE b

\* a + b of two Dec values
DecAdd(a, b) ==
  LET f == a.f + b.f
  IN  IF f >= Frac THEN Dec(a.c + b.c + 1, f - Frac) ELSE Dec(a.c + b.c, f)

\* a <= b of two Dec values
DecLeq(a, b) == a.c < b.c \/ (a.c = b.c /\ a.f <= b.f)

DecMin(a, b) == IF DecLeq(a, b) THEN a ELSE b

\* amount * n / m as a Dec, for amount >= 0 in cents, m a divisor of Frac,
\* (m - 1) * n and (amount \div m) * n below 2^31
Scale(amount, n, m) ==
  LET q == amount \div m
      r == (amount % m) * n
  IN  Dec((q * n) + (r \div m), (r % m) * (Frac \div m))

\* (c100 / 100) * (d / 10000)^2 euros as a Dec, i.e. c100 * d * d / Frac cents,
\* for 0 <= d < 100000 and c100 * d < 10^9: the product is formed limb by limb
QuadTerm(c100, d) ==
  LET t == c100 * d
      t1 == t \div Limb
      t0 == t % Limb
      d1 == d \div Limb
      d0 == d % Limb
      low == t0 * d0
      m == (t0 * d1) + (t1 * d0) + (low \div Limb)
  IN  Dec(t1 * d1 + (m \div Limb), ((m % Limb) * Limb) + (low % Limb))

\* Math.floor to whole euros, returned in cents (for a value >= 0)
FloorEuro(a) == (a.c \div 100) * 100

\* Math.round to whole euros, returned in cents: halves go up
RoundEuro(a) ==
  IF a.c % 100 >= 50 THEN (a.c \div 100 + 1) * 100 ELSE (a.c \div 100) * 100

\* Math.round(v * 100) / 100: to whole cents, halves go up
RoundCents(a) == IF 2 * a.f >= Frac THEN a.c + 1 ELSE a.c

-----------------------------------------------------------------------------
(* Parameters of 2026 *)

\* euro amounts in euros, ceilings in cents, rates in the unit named
TAX_2026 ==
  [ grundfreibetrag |-> 12348,
    werbungskostenPauschbetrag |-> 123000,          \* cents
    sonderausgabenPauschbetrag |-> 3600,            \* cents
    entlastungsbetragAlleinerziehende |-> 426000,   \* cents
    zone1End |-> 17443,
    zone2End |-> 68480,
    zone3End |-> 277825,
    rvBeitragssatz |-> 186,                         \* per mille
    rvBeitragsbemessungsgrenze |-> 10140000,        \* cents
    avBeitragssatz |-> 26,                          \* per mille
    avBeitragsbemessungsgrenze |-> 10140000,        \* cents
    kvBeitragssatz |-> 146,                         \* per mille
    kvBeitragsbemessungsgrenze |-> 6975000,         \* cents
    pvBeitragssatz |-> 36,                          \* per mille
    pvBeitragsbemessungsgrenze |-> 6975000,         \* cents
    pvArbeitnehmerAnteilBasis |-> 180,              \* per 10000
    pvKinderlosenzuschlag |-> 60,                   \* per 10000
    pvKinderabschlag |-> 25,                        \* per 10000
    soliFreigrenze |-> 2035000,                     \* cents
    soliMinderungssatz |-> 119,                     \* per mille
    soliSatz |-> 55,                                \* per mille
    vorsorgepauschaleRundung |-> 36,
    stkl5Grenze1 |-> 14071,
    stkl5Grenze2 |-> 34939,
    stkl5Grenze3 |-> 222260 ]

-----------------------------------------------------------------------------
(* Section 32a EStG: the tariff *)

\* the zone formula's value for the truncated base x (euros), as a Dec
TarifFormula(x) ==
  IF x <= TAX_2026.grundfreibetrag THEN DecZero
  ELSE IF x <= TAX_2026.zone1End THEN
    \* (932.30 * y + 1400) * y, y = (x - grundfreibetrag) / 10000
    LET d == x - TAX_2026.grundfreibetrag
    IN  DecAdd(QuadTerm(93230, d), Dec(14 * d, 0))
  ELSE IF x <= TAX_2026.zone2End THEN
    \* (176.64 * z + 2397) * z + 1015.13, z = (x - 17443) / 10000
    LET d == x - 17443
    IN  DecAdd(DecAdd(QuadTerm(17664, d), Scale(d, 2397, 100)), Dec(101513, 0))
  ELSE IF x <= TAX_2026.zone3End THEN
    \* 0.42 * x - 10911.92
    Dec(42 * x - 1091192, 0)
  ELSE
    \* 0.45 * x - 19185.88
    Dec(45 * x - 1918588, 0)

\* variant: the base is rounded up to the next euro
calculateTarifCeil(zve) == Max(0, FloorEuro(TarifFormula((zve + 99) \div 100)))

\* calculateTarif(zve): zve in cents, the tax in cents (whole euros)
calculateTarif(zve) ==
  LET x == zve \div 100
  IN  Max(0, FloorEuro(TarifFormula(x)))

\* calculateUp56(zx): zx in whole euros, the amount in cents
calculateUp56(zx) ==
  LET st1 == calculateTarif(125 * zx)
      st2 == calculateTarif(75 * zx)
      diff == (st1 - st2) * 2
      mist == ((14 * zx) \div 100) * 100
  IN  Max(diff, mist)

\* the first candidate of calculateTarifClassFiveSix: st before the comparison
\* at stkl5Grenze1, for the base zzx in whole euros; the amount in cents
classFiveSixVergl(zzx) ==
  LET st0 == calculateUp56(Min(zzx, TAX_2026.stkl5Grenze2))
  IN  IF zzx > TAX_2026.stkl5Grenze2
      THEN IF zzx > TAX_2026.stkl5Grenze3
           THEN FloorEuro(Dec(st0
                  + (TAX_2026.stkl5Grenze3 - TAX_2026.stkl5Grenze2) * 42
                  + (zzx - TAX_2026.stkl5Grenze3) * 45, 0))
           ELSE FloorEuro(Dec(st0 + (zzx - TAX_2026.stkl5Grenze2) * 42, 0))
      ELSE st0

\* the second candidate: Math.floor(stAtGrenze1 + (zzx - stkl5Grenze1) * 0.42)
classFiveSixHoch(zzx) ==
  FloorEuro(Dec(calculateUp56(TAX_2026.stkl5Grenze1)
                  + (zzx - TAX_2026.stkl5Grenze1) * 42, 0))

\* variant: the comparison above stkl5Grenze1 is left out
calculateTarifClassFiveSixNoHoch(zve) == Max(0, FloorEuro(Dec(classFiveSixVergl(zve \div 100), 0)))

\* Section 39b (2) 7 EStG: classes V and VI; zve in cents, the tax in cents
calculateTarifClassFiveSix(zve) ==
  LET zzx == zve \div 100
      st == IF zzx > TAX_2026.stkl5Grenze1
            THEN Max(classFiveSixVergl(zzx), classFiveSixHoch(zzx))
            ELSE classFiveSixVergl(zzx)
  IN  Max(0, FloorEuro(Dec(st, 0)))

\* variant: the tariff is applied to the whole base, without splitting
calculateSplittingTarifUnsplit(zve) == calculateTarif(zve)

\* variant: the tariff is doubled without halving the income
calculateSplittingTarifDoubled(zve) == 2 * calculateTarif(zve)

\* Section 32a (5) EStG: splitting; zve in cents, the tax in cents
calculateSplittingTarif(zve) ==
  LET halvedZve == zve \div 2
      halvedTax == calculateTarif(halvedZve)
  IN  2 * halvedTax

\* variant: up to a multiple of 36 euros
roundTo36Up(zve) == ((zve + 3599) \div 3600) * 3600

\* Section 39b (2) 9 EStG: down to a multiple of 36 euros; cents in, cents out
roundTo36(zve) ==
  (zve \div (TAX_2026.vorsorgepauschaleRundung * 100))
    * (TAX_2026.vorsorgepauschaleRundung * 100)

-----------------------------------------------------------------------------
(* Surcharges *)

\* calculateSoli(lohnsteuer): cents in, cents out (Math.round: whole euros)
calculateSoli(lohnsteuer) ==
  IF lohnsteuer <= TAX_2026.soliFreigrenze THEN 0
  ELSE LET fullSoli == Scale(lohnsteuer, TAX_2026.soliSatz, 1000)
           minderungSoli == Scale(lohnsteuer - TAX_2026.soliFreigrenze,
                                  TAX_2026.soliMinderungssatz, 1000)
       IN  RoundEuro(DecMin(fullSoli, minderungSoli))

\* calculateKirchensteuer(lohnsteuer, enabled, satz): satz in percent
calculateKirchensteuer(lohnsteuer, enabled, satz) ==
  IF ~enabled THEN 0
  ELSE RoundEuro(Scale(lohnsteuer, satz, 100))

-----------------------------------------------------------------------------
(* Social contributions *)

\* variant: no statutory minimum
calculatePVSatzNoFloor(alter, kinderAnzahl) == TAX_2026.pvArbeitnehmerAnteilBasis + (IF alter >= 23 /\ kinderAnzahl = 0 THEN TAX_2026.pvKinderlosenzuschlag ELSE 0) - Max(0, Min(kinderAnzahl - 1, 4)) * TAX_2026.pvKinderabschlag

\* variant: the surcharge starts after the age of 23
calculatePVSatzOver23(alter, kinderAnzahl) == Max(170, TAX_2026.pvArbeitnehmerAnteilBasis + (IF alter > 23 /\ kinderAnzahl = 0 THEN TAX_2026.pvKinderlosenzuschlag ELSE 0) - Max(0, Min(kinderAnzahl - 1, 4)) * TAX_2026.pvKinderabschlag)

\* calculatePVSatz(alter, kinderAnzahl): the employee's rate per 10000
calculatePVSatz(alter, kinderAnzahl) ==
  LET base == TAX_2026.pvArbeitnehmerAnteilBasis
      withZuschlag == IF alter >= 23 /\ kinderAnzahl = 0
                      THEN base + TAX_2026.pvKinderlosenzuschlag
                      ELSE base
      kinderMitAbschlag == Max(0, Min(kinderAnzahl - 1, 4))
      arbeitnehmerAnteil == withZuschlag
                              - kinderMitAbschlag * TAX_2026.pvKinderabschlag
  IN  Max(170, arbeitnehmerAnteil)

\* calculateVorsorgepauschale: contributions in cents, whole euros in cents
\* variant: the sum is kept to the cent
calculateVorsorgepauschaleCents(rvBeitrag, avBeitrag, kvBeitrag, pvBeitrag) == RoundCents(DecAdd(Dec(rvBeitrag + kvBeitrag + pvBeitrag, 0), Scale(avBeitrag, 235, 1000)))

calculateVorsorgepauschale(rvBeitrag, avBeitrag, kvBeitrag, pvBeitrag) ==
  LET rvTeilbetrag == Dec(rvBeitrag, 0)
      avTeilbetrag == Scale(avBeitrag, 235, 1000)
      kvPvTeilbetrag == Dec(kvBeitrag + pvBeitrag, 0)
  IN  RoundEuro(DecAdd(DecAdd(rvTeilbetrag, avTeilbetrag), kvPvTeilbetrag))

\* variant: the contributions are taken from the whole gross income
calculateSozialabgabenUncapped(brutto, zusatzbeitrag, alter, kinderAnzahl) ==
  LET rv == RoundCents(Scale(brutto, TAX_2026.rvBeitragssatz \div 2, 1000))
      av == RoundCents(Scale(brutto, TAX_2026.avBeitragssatz \div 2, 1000))
      kv == RoundCents(Scale(brutto, (TAX_2026.kvBeitragssatz \div 2) * 20 + zusatzbeitrag, 20000))
      pv == RoundCents(Scale(brutto, calculatePVSatz(alter, kinderAnzahl), 10000))
  IN  [ rentenversicherung |-> rv,
        arbeitslosenversicherung |-> av,
        krankenversicherung |-> kv,
        pflegeversicherung |-> pv,
        gesamtSozialabgaben |-> RoundCents(Dec(rv + av + kv + pv, 0)),
        vorsorgepauschale |-> calculateVorsorgepauschale(rv, av, kv, pv) ]

\* calculateSozialabgaben: brutto in cents, zusatzbeitrag in 1/100 percent
calculateSozialabgaben(brutto, zusatzbeitrag, alter, kinderAnzahl) ==
  LET rvBasis == Min(brutto, TAX_2026.rvBeitragsbemessungsgrenze)
      rv == RoundCents(Scale(rvBasis, TAX_2026.rvBeitragssatz \div 2, 1000))
      avBasis == Min(brutto, TAX_2026.avBeitragsbemessungsgrenze)
      av == RoundCents(Scale(avBasis, TAX_2026.avBeitragssatz \div 2, 1000))
      kvBasis == Min(brutto, TAX_2026.kvBeitragsbemessungsgrenze)
      \* kvSatz = 0.146 / 2 + zusatzbeitrag / 100 / 2, over 20000
      kvSatz == (TAX_2026.kvBeitragssatz \div 2) * 20 + zusatzbeitrag
      kv == RoundCents(Scale(kvBasis, kvSatz, 20000))
      pvBasis == Min(brutto, TAX_2026.pvBeitragsbemessungsgrenze)
      pvSatz == calculatePVSatz(alter, kinderAnzahl)
      pv == RoundCents(Scale(pvBasis, pvSatz, 10000))
  IN  [ rentenversicherung |-> rv,
        arbeitslosenversicherung |-> av,
        krankenversicherung |-> kv,
        pflegeversicherung |-> pv,
        gesamtSozialabgaben |-> RoundCents(Dec(rv + av + kv + pv, 0)),
        vorsorgepauschale |-> calculateVorsorgepauschale(rv, av, kv, pv) ]

-----------------------------------------------------------------------------
(* calculateTax *)

Steuerklassen == {"I", "II", "III", "IV", "V", "VI"}

\* a percentage num / den * 100 of the result, kept as the exact quotient
Rate(num, den) == [num |-> num, den |-> den]

ZeroRate == Rate(0, 1)

NoError == "none"

\* variant: the check of alter is missing
validateWithoutAlter(req) ==
  IF ~NumberIsFinite(req.bruttoJahr) \/ LessThanZero(req.bruttoJahr)
    THEN "bruttoJahr muss eine nicht-negative Zahl sein."
  ELSE IF ~NumberIsFinite(req.zusatzbeitrag) \/ LessThanZero(req.zusatzbeitrag)
    THEN "zusatzbeitrag muss eine nicht-negative Zahl sein."
  ELSE IF ~NumberIsFinite(req.werbungskosten) \/ LessThanZero(req.werbungskosten)
    THEN "werbungskosten muss eine nicht-negative Zahl sein."
  ELSE IF ~NumberIsFinite(req.kinderAnzahl) \/ LessThanZero(req.kinderAnzahl)
    THEN "kinderAnzahl muss eine nicht-negative Zahl sein."
  ELSE NoError

\* variant: the checks run from the last field to the first
validateReversed(req) ==
  IF ~NumberIsFinite(req.alter) \/ LessThanZero(req.alter)
    THEN "alter muss eine nicht-negative Zahl sein."
  ELSE IF ~NumberIsFinite(req.kinderAnzahl) \/ LessThanZero(req.kinderAnzahl)
    THEN "kinderAnzahl muss eine nicht-negative Zahl sein."
  ELSE IF ~NumberIsFinite(req.werbungskosten) \/ LessThanZero(req.werbungskosten)
    THEN "werbungskosten muss eine nicht-negative Zahl sein."
  ELSE IF ~NumberIsFinite(req.zusatzbeitrag) \/ LessThanZero(req.zusatzbeitrag)
    THEN "zusatzbeitrag muss eine nicht-negative Zahl sein."
  ELSE IF ~NumberIsFinite(req.bruttoJahr) \/ LessThanZero(req.bruttoJahr)
    THEN "bruttoJahr muss eine nicht-negative Zahl sein."
  ELSE NoError

\* the checks at the head of calculateTax, in the order of the source:
\* the message of the first check that fails, NoError when none does
validate(req) ==
  IF ~NumberIsFinite(req.bruttoJahr) \/ LessThanZero(req.bruttoJahr)
    THEN "bruttoJahr muss eine nicht-negative Zahl sein."
  ELSE IF ~NumberIsFinite(req.zusatzbeitrag) \/ LessThanZero(req.zusatzbeitrag)
    THEN "zusatzbeitrag muss eine nicht-negative Zahl sein."
  ELSE IF ~NumberIsFinite(req.werbungskosten) \/ LessThanZero(req.werbungskosten)
    THEN "werbungskosten muss eine nicht-negative Zahl sein."
  ELSE IF ~NumberIsFinite(req.kinderAnzahl) \/ LessThanZero(req.kinderAnzahl)
    THEN "kinderAnzahl muss eine nicht-negative Zahl sein."
  ELSE IF ~NumberIsFinite(req.alter) \/ LessThanZero(req.alter)
    THEN "alter muss eine nicht-negative Zahl sein."
  ELSE NoError

\* steuerklasse === "VI" ? 0 : Math.max(werbungskostenPauschbetrag, werbungskosten)
\* variant: the declared expenses are subtracted, whatever the allowance is
effectiveWerbungskostenDeclared(steuerklasse, werbungskosten) == IF steuerklasse = "VI" THEN 0 ELSE werbungskosten

effectiveWerbungskosten(steuerklasse, werbungskosten) ==
  IF steuerklasse = "VI" THEN 0
  ELSE Max(TAX_2026.werbungskostenPauschbetrag, werbungskosten)

\* variant: Steuerklasse VI keeps the special-expenses allowance
effectiveSonderausgabenForAll(steuerklasse) ==
  TAX_2026.sonderausgabenPauschbetrag

\* steuerklasse === "VI" ? 0 : sonderausgabenPauschbetrag
effectiveSonderausgaben(steuerklasse) ==
  IF steuerklasse = "VI" THEN 0 ELSE TAX_2026.sonderausgabenPauschbetrag

\* variant: no relief for any Steuerklasse
entlastungsbetragNone(steuerklasse) == 0

\* the relief subtracted for Steuerklasse II only
entlastungsbetrag(steuerklasse) ==
  IF steuerklasse = "II" THEN TAX_2026.entlastungsbetragAlleinerziehende ELSE 0

\* variant: the quotient is formed whatever bruttoJahr is
percentOfBruttoUnguarded(part, bruttoJahr) == Rate(part, bruttoJahr)

\* bruttoJahr > 0 ? (part / bruttoJahr) * 100 : 0
percentOfBrutto(part, bruttoJahr) ==
  IF bruttoJahr > 0 THEN Rate(part, bruttoJahr) ELSE ZeroRate

\* the tail of calculateTax: the surcharges, the totals and the result, for
\* the contributions, the allowances, the taxable income and the lohnsteuer
\* computed before
\* variant: the contributions are not taken off the net income
taxResultNetOfTaxes(req, sozialabgaben, anp, sap, zve, zvEForLohnsteuer, lohnsteuer) ==
  LET bruttoJahr == req.bruttoJahr.v
      solidaritaetszuschlag == calculateSoli(lohnsteuer)
      kirchensteuerBetrag ==
        calculateKirchensteuer(lohnsteuer, req.kirchensteuer, req.kirchensteuerSatz)
      gesamtSteuern == lohnsteuer + solidaritaetszuschlag + kirchensteuerBetrag
      gesamtAbzuege == gesamtSteuern + sozialabgaben.gesamtSozialabgaben
      nettoJahr == bruttoJahr - gesamtSteuern
  IN  [ status |-> "ok",
        bruttoJahr |-> bruttoJahr,
        steuerklasse |-> req.steuerklasse,
        rentenversicherung |-> sozialabgaben.rentenversicherung,
        arbeitslosenversicherung |-> sozialabgaben.arbeitslosenversicherung,
        krankenversicherung |-> sozialabgaben.krankenversicherung,
        pflegeversicherung |-> sozialabgaben.pflegeversicherung,
        gesamtSozialabgaben |-> sozialabgaben.gesamtSozialabgaben,
        werbungskostenPauschbetrag |-> anp,
        sonderausgabenPauschbetrag |-> sap,
        vorsorgepauschale |-> sozialabgaben.vorsorgepauschale,
        zuVersteuerndesEinkommen |-> zve,
        zvEForLohnsteuer |-> zvEForLohnsteuer,
        lohnsteuer |-> lohnsteuer,
        solidaritaetszuschlag |-> solidaritaetszuschlag,
        kirchensteuer |-> kirchensteuerBetrag,
        gesamtSteuern |-> gesamtSteuern,
        nettoJahr |-> RoundCents(Dec(nettoJahr, 0)),
        \* Math.round((nettoJahr / 12) * 100) / 100
        nettoMonat |-> (2 * nettoJahr + 12) \div 24,
        steuerSatz |-> percentOfBrutto(gesamtSteuern, bruttoJahr),
        abgabenSatz |-> percentOfBrutto(gesamtAbzuege, bruttoJahr),
        nettoQuote |-> percentOfBrutto(nettoJahr, bruttoJahr) ]

taxResult(req, sozialabgaben, anp, sap, zve, zvEForLohnsteuer, lohnsteuer) ==
  LET bruttoJahr == req.bruttoJahr.v
      solidaritaetszuschlag == calculateSoli(lohnsteuer)
      kirchensteuerBetrag ==
        calculateKirchensteuer(lohnsteuer, req.kirchensteuer, req.kirchensteuerSatz)
      gesamtSteuern == lohnsteuer + solidaritaetszuschlag + kirchensteuerBetrag
      gesamtAbzuege == gesamtSteuern + sozialabgaben.gesamtSozialabgaben
      nettoJahr == bruttoJahr - gesamtAbzuege
  IN  [ status |-> "ok",
        bruttoJahr |-> bruttoJahr,
        steuerklasse |-> req.steuerklasse,
        rentenversicherung |-> sozialabgaben.rentenversicherung,
        arbeitslosenversicherung |-> sozialabgaben.arbeitslosenversicherung,
        krankenversicherung |-> sozialabgaben.krankenversicherung,
        pflegeversicherung |-> sozialabgaben.pflegeversicherung,
        gesamtSozialabgaben |-> sozialabgaben.gesamtSozialabgaben,
        werbungskostenPauschbetrag |-> anp,
        sonderausgabenPauschbetrag |-> sap,
        vorsorgepauschale |-> sozialabgaben.vorsorgepauschale,
        zuVersteuerndesEinkommen |-> zve,
        zvEForLohnsteuer |-> zvEForLohnsteuer,
        lohnsteuer |-> lohnsteuer,
        solidaritaetszuschlag |-> solidaritaetszuschlag,
        kirchensteuer |-> kirchensteuerBetrag,
        gesamtSteuern |-> gesamtSteuern,
        nettoJahr |-> RoundCents(Dec(nettoJahr, 0)),
        \* Math.round((nettoJahr / 12) * 100) / 100
        nettoMonat |-> (2 * nettoJahr + 12) \div 24,
        steuerSatz |-> percentOfBrutto(gesamtSteuern, bruttoJahr),
        abgabenSatz |-> percentOfBrutto(gesamtAbzuege, bruttoJahr),
        nettoQuote |-> percentOfBrutto(nettoJahr, bruttoJahr) ]

\* the switch of calculateTax: the tariff of the Steuerklasse
lohnsteuerOf(steuerklasse, zvEForLohnsteuer) ==
  IF steuerklasse = "I" \/ steuerklasse = "II" \/ steuerklasse = "IV"
    THEN calculateTarif(zvEForLohnsteuer)
  ELSE IF steuerklasse = "III" THEN calculateSplittingTarif(zvEForLohnsteuer)
  ELSE IF steuerklasse = "V" \/ steuerklasse = "VI"
    THEN calculateTarifClassFiveSix(zvEForLohnsteuer)
  ELSE calculateTarif(zvEForLohnsteuer)

\* the taxable income rounded for the tariff, and the lohnsteuer on it
taxOnIncome(req, sozialabgaben, anp, sap, zve) ==
  taxResult(req, sozialabgaben, anp, sap, zve, roundTo36(zve),
            lohnsteuerOf(req.steuerklasse, roundTo36(zve)))

\* the middle of calculateTax: the allowances and the taxable income, for
\* the contributions computed before
taxOnContributions(req, sozialabgaben) ==
  LET steuerklasse == req.steuerklasse
      anp == effectiveWerbungskosten(steuerklasse, req.werbungskosten.v)
      sap == effectiveSonderausgaben(steuerklasse)
  IN  taxOnIncome(req, sozialabgaben, anp, sap,
        Max(0, req.bruttoJahr.v - anp - sap - entlastungsbetrag(steuerklasse)
                 - sozialabgaben.vorsorgepauschale))

\* the body of calculateTax after its checks, for a request that passed them
computeTax(req) ==
  taxOnContributions(req,
    calculateSozialabgaben(req.bruttoJahr.v, req.zusatzbeitrag.v,
                           req.alter.v, req.kinderAnzahl.v))

\* the functions calculateTax calls once its checks have passed, in order
computeSteps(req) ==
  << "calculateSozialabgaben",
     IF req.steuerklasse = "III" THEN "calculateSplittingTarif"
     ELSE IF req.steuerklasse = "V" \/ req.steuerklasse = "VI"
       THEN "calculateTarifClassFiveSix"
     ELSE "calculateTarif",
     "calculateSoli",
     "calculateKirchensteuer" >>

\* calculateTax(input): what the call returns or throws, and the calls it made
calculateTax(req) ==
  LET err == validate(req)
  IN  IF err # NoError
      THEN [outcome |-> [status |-> "error", message |-> err], steps |-> << >>]
      ELSE [outcome |-> computeTax(req), steps |-> computeSteps(req)]

-----------------------------------------------------------------------------
(* The compiled build with parameter profiles (src/unnamed/part_003): the   *)
(* same functions, each taking the profile's constants as taxConfig, and    *)
(* rounding the tariff and the surcharges to cents.                         *)

roundToCents(value) == RoundCents(value)

\* variant: the legacy profile is the default
DEFAULT_TAX_PROFILE_Legacy == "2026_legacy"

DEFAULT_TAX_PROFILE == "2026_current"

\* units as in TAX_2026; coefficients times 100, base and offsets in cents
TAX_PROFILES ==
  [ 2026_current |->
      [ year |-> 2026,
        label |-> "2026 (Aktuell §32a)",
        description |-> "Aktuelle Tarifwerte 2026.",
        grundfreibetrag |-> 12348,
        zone1End |-> 17799,
        zone2End |-> 69878,
        zone3End |-> 277825,
        zone2CoeffA |-> 91451,
        zone3CoeffA |-> 17310,
        zone3Base |-> 103487,
        zone4Offset |-> 1113563,
        zone5Offset |-> 1947038,
        werbungskostenPauschbetrag |-> 123000,
        sonderausgabenPauschbetrag |-> 3600,
        entlastungsbetragAlleinerziehende |-> 426000,
        rvBeitragssatz |-> 186,
        rvBeitragsbemessungsgrenze |-> 10140000,
        avBeitragssatz |-> 26,
        avBeitragsbemessungsgrenze |-> 10140000,
        kvBeitragssatz |-> 146,
        kvBeitragsbemessungsgrenze |-> 6975000,
        pvBeitragssatz |-> 36,
        pvBeitragsbemessungsgrenze |-> 6975000,
        pvArbeitnehmerAnteilBasis |-> 180,
        pvKinderlosenzuschlag |-> 60,
        pvKinderabschlag |-> 25,
        soliFreigrenze |-> 2035000,
        soliMinderungssatz |-> 119,
        soliSatz |-> 55,
        vorsorgepauschaleRundung |-> 36,
        stkl5Grenze1 |-> 14071,
        stkl5Grenze2 |-> 34939,
        stkl5Grenze3 |-> 222260,
        avVorsorgeFaktor |-> 235 ],
    2026_legacy |->
      [ year |-> 2026,
        label |-> "2026 (Legacy-Kompatibel)",
        description |-> "Kompatibilitätsprofil für ältere Vergleichsrechner.",
        grundfreibetrag |-> 12348,
        zone1End |-> 17443,
        zone2End |-> 68480,
        zone3End |-> 277825,
        zone2CoeffA |-> 93230,
        zone3CoeffA |-> 17664,
        zone3Base |-> 101513,
        zone4Offset |-> 1091192,
        zone5Offset |-> 1918588,
        werbungskostenPauschbetrag |-> 123000,
        sonderausgabenPauschbetrag |-> 3600,
        entlastungsbetragAlleinerziehende |-> 426000,
        rvBeitragssatz |-> 186,
        rvBeitragsbemessungsgrenze |-> 10140000,
        avBeitragssatz |-> 26,
        avBeitragsbemessungsgrenze |-> 10140000,
        kvBeitragssatz |-> 146,
        kvBeitragsbemessungsgrenze |-> 6975000,
        pvBeitragssatz |-> 36,
        pvBeitragsbemessungsgrenze |-> 6975000,
        pvArbeitnehmerAnteilBasis |-> 180,
        pvKinderlosenzuschlag |-> 60,
        pvKinderabschlag |-> 25,
        soliFreigrenze |-> 2035000,
        soliMinderungssatz |-> 119,
        soliSatz |-> 55,
        vorsorgepauschaleRundung |-> 36,
        stkl5Grenze1 |-> 14071,
        stkl5Grenze2 |-> 34939,
        stkl5Grenze3 |-> 222260,
        avVorsorgeFaktor |-> 235 ] ]

\* an absent request field, and the value of a missing table entry
Undefined == "undefined"

UndefinedConfig == [undefined |-> TRUE]

\* the constants of the profile "2026_current"
CurrentProfileConfig == TAX_PROFILES["2026_current"]

\* variant: the legacy profile has an employee allowance of its own
LegacyConfigOwnAllowance == [TAX_PROFILES["2026_legacy"] EXCEPT !.werbungskostenPauschbetrag = 100000]

getTaxProfileConfigOwnAllowance(profileId) ==
  IF profileId = "2026_legacy" THEN LegacyConfigOwnAllowance
  ELSE IF profileId = Undefined \/ profileId = "2026_current" THEN CurrentProfileConfig
  ELSE UndefinedConfig

\* TAX_PROFILES[profileId ?? DEFAULT_TAX_PROFILE]
getTaxProfileConfig(profileId) ==
  LET id == IF profileId = Undefined THEN DEFAULT_TAX_PROFILE ELSE profileId
  IN  IF id \in DOMAIN TAX_PROFILES THEN TAX_PROFILES[id] ELSE UndefinedConfig

TarifFormulaProfile(x, taxConfig) ==
  IF x <= taxConfig.grundfreibetrag THEN DecZero
  ELSE IF x <= taxConfig.zone1End THEN
    LET d == x - taxConfig.grundfreibetrag
    IN  DecAdd(QuadTerm(taxConfig.zone2CoeffA, d), Dec(14 * d, 0))
  ELSE IF x <= taxConfig.zone2End THEN
    LET d == x - taxConfig.zone1End
    IN  DecAdd(DecAdd(QuadTerm(taxConfig.zone3CoeffA, d), Scale(d, 2397, 100)),
               Dec(taxConfig.zone3Base, 0))
  ELSE IF x <= taxConfig.zone3End THEN
    Dec(42 * x - taxConfig.zone4Offset, 0)
  ELSE
    Dec(45 * x - taxConfig.zone5Offset, 0)

\* calculateTarif(zve, taxConfig): cents in, cents out (to the cent)
calculateTarifProfile(zve, taxConfig) ==
  LET x == zve \div 100
  IN  Max(0, roundToCents(TarifFormulaProfile(x, taxConfig)))

calculateUp56Profile(zx, taxConfig) ==
  LET st1 == calculateTarifProfile(125 * zx, taxConfig)
      st2 == calculateTarifProfile(75 * zx, taxConfig)
      diff == (st1 - st2) * 2
      mist == ((14 * zx) \div 100) * 100
  IN  Max(diff, mist)

classFiveSixVerglProfile(zzx, taxConfig) ==
  LET st0 == calculateUp56Profile(Min(zzx, taxConfig.stkl5Grenze2), taxConfig)
  IN  IF zzx > taxConfig.stkl5Grenze2
      THEN IF zzx > taxConfig.stkl5Grenze3
           THEN FloorEuro(Dec(st0
                  + (taxConfig.stkl5Grenze3 - taxConfig.stkl5Grenze2) * 42
                  + (zzx - taxConfig.stkl5Grenze3) * 45, 0))
           ELSE FloorEuro(Dec(st0 + (zzx - taxConfig.stkl5Grenze2) * 42, 0))
      ELSE st0

classFiveSixHochProfile(zzx, taxConfig) ==
  FloorEuro(Dec(calculateUp56Profile(taxConfig.stkl5Grenze1, taxConfig)
                  + (zzx - taxConfig.stkl5Grenze1) * 42, 0))

calculateTarifClassFiveSixProfile(zve, taxConfig) ==
  LET zzx == zve \div 100
      st == IF zzx > taxConfig.stkl5Grenze1
            THEN Max(classFiveSixVerglProfile(zzx, taxConfig),
                     classFiveSixHochProfile(zzx, taxConfig))
            ELSE classFiveSixVerglProfile(zzx, taxConfig)
  IN  Max(0, FloorEuro(Dec(st, 0)))

calculateSplittingTarifProfile(zve, taxConfig) ==
  LET halvedZve == zve \div 2
      halvedTax == calculateTarifProfile(halvedZve, taxConfig)
  IN  roundToCents(Dec(2 * halvedTax, 0))

roundTo36Profile(zve, taxConfig) ==
  (zve \div (taxConfig.vorsorgepauschaleRundung * 100))
    * (taxConfig.vorsorgepauschaleRundung * 100)

calculateSoliProfile(lohnsteuer, taxConfig) ==
  IF lohnsteuer <= taxConfig.soliFreigrenze THEN 0
  ELSE LET fullSoli == Scale(lohnsteuer, taxConfig.soliSatz, 1000)
           minderungSoli == Scale(lohnsteuer - taxConfig.soliFreigrenze,
                                  taxConfig.soliMinderungssatz, 1000)
       IN  roundToCents(DecMin(fullSoli, minderungSoli))

calculateKirchensteuerProfile(lohnsteuer, enabled, satz) ==
  IF ~enabled THEN 0
  ELSE roundToCents(Scale(lohnsteuer, satz, 100))

calculatePVSatzProfile(alter, kinderAnzahl, taxConfig) ==
  LET base == taxConfig.pvArbeitnehmerAnteilBasis
      withZuschlag == IF alter >= 23 /\ kinderAnzahl = 0
                      THEN base + taxConfig.pvKinderlosenzuschlag
                      ELSE base
      kinderMitAbschlag == Max(0, Min(kinderAnzahl - 1, 4))
      arbeitnehmerAnteil == withZuschlag
                              - kinderMitAbschlag * taxConfig.pvKinderabschlag
  IN  Max(170, arbeitnehmerAnteil)

calculateVorsorgepauschaleProfile(rvBeitrag, avBeitrag, kvBeitrag, pvBeitrag, taxConfig) ==
  LET rvTeilbetrag == Dec(rvBeitrag, 0)
      avTeilbetrag == Scale(avBeitrag, taxConfig.avVorsorgeFaktor, 1000)
      kvPvTeilbetrag == Dec(kvBeitrag + pvBeitrag, 0)
  IN  RoundEuro(DecAdd(DecAdd(rvTeilbetrag, avTeilbetrag), kvPvTeilbetrag))

calculateSozialabgabenProfile(brutto, zusatzbeitrag, alter, kinderAnzahl, taxConfig) ==
  LET rvBasis == Min(brutto, taxConfig.rvBeitragsbemessungsgrenze)
      rv == RoundCents(Scale(rvBasis, taxConfig.rvBeitragssatz \div 2, 1000))
      avBasis == Min(brutto, taxConfig.avBeitragsbemessungsgrenze)
      av == RoundCents(Scale(avBasis, taxConfig.avBeitragssatz \div 2, 1000))
      kvBasis == Min(brutto, taxConfig.kvBeitragsbemessungsgrenze)
      kvSatz == (taxConfig.kvBeitragssatz \div 2) * 20 + zusatzbeitrag
      kv == RoundCents(Scale(kvBasis, kvSatz, 20000))
      pvBasis == Min(brutto, taxConfig.pvBeitragsbemessungsgrenze)
      pvSatz == calculatePVSatzProfile(alter, kinderAnzahl, taxConfig)
      pv == RoundCents(Scale(pvBasis, pvSatz, 10000))
  IN  [ rentenversicherung |-> rv,
        arbeitslosenversicherung |-> av,
        krankenversicherung |-> kv,
        pflegeversicherung |-> pv,
        gesamtSozialabgaben |-> RoundCents(Dec(rv + av + kv + pv, 0)),
        vorsorgepauschale |->
          calculateVorsorgepauschaleProfile(rv, av, kv, pv, taxConfig) ]

\* the tail of the compiled calculateTax: surcharges, totals and the result
taxResultProfile(req, resolvedTaxProfileId, taxConfig, sozialabgaben, anp, sap, zve, zvEForLohnsteuer, lohnsteuer) ==
  LET bruttoJahr == req.bruttoJahr.v
      solidaritaetszuschlag == calculateSoliProfile(lohnsteuer, taxConfig)
      kirchensteuerBetrag ==
        calculateKirchensteuerProfile(lohnsteuer, req.kirchensteuer,
                                      req.kirchensteuerSatz)
      gesamtSteuern == lohnsteuer + solidaritaetszuschlag + kirchensteuerBetrag
      gesamtAbzuege == gesamtSteuern + sozialabgaben.gesamtSozialabgaben
      nettoJahr == bruttoJahr - gesamtAbzuege
  IN  [ status |-> "ok",
        bruttoJahr |-> bruttoJahr,
        taxProfileId |-> resolvedTaxProfileId,
        steuerklasse |-> req.steuerklasse,
        rentenversicherung |-> sozialabgaben.rentenversicherung,
        arbeitslosenversicherung |-> sozialabgaben.arbeitslosenversicherung,
        krankenversicherung |-> sozialabgaben.krankenversicherung,
        pflegeversicherung |-> sozialabgaben.pflegeversicherung,
        gesamtSozialabgaben |-> sozialabgaben.gesamtSozialabgaben,
        werbungskostenPauschbetrag |-> anp,
        sonderausgabenPauschbetrag |-> sap,
        vorsorgepauschale |-> sozialabgaben.vorsorgepauschale,
        zuVersteuerndesEinkommen |-> zve,
        zvEForLohnsteuer |-> zvEForLohnsteuer,
        lohnsteuer |-> lohnsteuer,
        solidaritaetszuschlag |-> solidaritaetszuschlag,
        kirchensteuer |-> kirchensteuerBetrag,
        gesamtSteuern |-> gesamtSteuern,
        nettoJahr |-> RoundCents(Dec(nettoJahr, 0)),
        nettoMonat |-> (2 * nettoJahr + 12) \div 24,
        steuerSatz |-> IF bruttoJahr > 0 THEN Rate(gesamtSteuern, bruttoJahr)
                       ELSE ZeroRate,
        abgabenSatz |-> IF bruttoJahr > 0 THEN Rate(gesamtAbzuege, bruttoJahr)
                        ELSE ZeroRate,
        nettoQuote |-> IF bruttoJahr > 0 THEN Rate(nettoJahr, bruttoJahr)
                       ELSE ZeroRate ]

\* the switch of the compiled calculateTax: the tariff of the Steuerklasse
lohnsteuerOfProfile(steuerklasse, zvEForLohnsteuer, taxConfig) ==
  IF steuerklasse = "I" \/ steuerklasse = "II" \/ steuerklasse = "IV"
    THEN calculateTarifProfile(zvEForLohnsteuer, taxConfig)
  ELSE IF steuerklasse = "III"
    THEN calculateSplittingTarifProfile(zvEForLohnsteuer, taxConfig)
  ELSE IF steuerklasse = "V" \/ steuerklasse = "VI"
    THEN calculateTarifClassFiveSixProfile(zvEForLohnsteuer, taxConfig)
  ELSE calculateTarifProfile(zvEForLohnsteuer, taxConfig)

\* the taxable income rounded for the tariff, and the lohnsteuer on it
taxOnIncomeProfile(req, resolvedTaxProfileId, taxConfig, sozialabgaben, anp, sap, zve) ==
  taxResultProfile(req, resolvedTaxProfileId, taxConfig, sozialabgaben,
                   anp, sap, zve, roundTo36Profile(zve, taxConfig),
                   lohnsteuerOfProfile(req.steuerklasse,
                                       roundTo36Profile(zve, taxConfig), taxConfig))

\* the middle of the compiled calculateTax: allowances and taxable income
taxOnContributionsProfile(req, resolvedTaxProfileId, taxConfig, sozialabgaben) ==
  LET steuerklasse == req.steuerklasse
      anp ==
        IF steuerklasse = "VI" THEN 0
        ELSE Max(taxConfig.werbungskostenPauschbetrag, req.werbungskosten.v)
      sap ==
        IF steuerklasse = "VI" THEN 0 ELSE taxConfig.sonderausgabenPauschbetrag
      entlastung ==
        IF steuerklasse = "II" THEN taxConfig.entlastungsbetragAlleinerziehende
        ELSE 0
  IN  taxOnIncomeProfile(req, resolvedTaxProfileId, taxConfig, sozialabgaben,
        anp, sap,
        Max(0, req.bruttoJahr.v - anp - sap
                 - entlastung - sozialabgaben.vorsorgepauschale))

\* the body of the compiled calculateTax after its checks
computeTaxProfile(req, resolvedTaxProfileId, taxConfig) ==
  taxOnContributionsProfile(req, resolvedTaxProfileId, taxConfig,
    calculateSozialabgabenProfile(req.bruttoJahr.v, req.zusatzbeitrag.v,
                                  req.alter.v, req.kinderAnzahl.v, taxConfig))

\* the checks of the compiled calculateTax, in the order of the source
validateProfile(req) ==
  IF ~NumberIsFinite(req.bruttoJahr) \/ LessThanZero(req.bruttoJahr)
    THEN "bruttoJahr muss eine nicht-negative Zahl sein."
  ELSE IF ~NumberIsFinite(req.zusatzbeitrag) \/ LessThanZero(req.zusatzbeitrag)
    THEN "zusatzbeitrag muss eine nicht-negative Zahl sein."
  ELSE IF ~NumberIsFinite(req.werbungskosten) \/ LessThanZero(req.werbungskosten)
    THEN "werbungskosten muss eine nicht-negative Zahl sein."
  ELSE IF ~NumberIsFinite(req.kinderAnzahl) \/ LessThanZero(req.kinderAnzahl)
    THEN "kinderAnzahl muss eine nicht-negative Zahl sein."
  ELSE IF ~NumberIsFinite(req.alter) \/ LessThanZero(req.alter)
    THEN "alter muss eine nicht-negative Zahl sein."
  ELSE NoError

\* the compiled calculateTax(input): the profile is looked up before the
\* checks; a missing profile is first dereferenced in calculateSozialabgaben,
\* which then throws a TypeError
calculateTaxProfile(req) ==
  LET resolvedTaxProfileId ==
        IF req.taxProfileId = Undefined THEN DEFAULT_TAX_PROFILE
        ELSE req.taxProfileId
      taxConfig == getTaxProfileConfig(resolvedTaxProfileId)
      err == validateProfile(req)
  IN  IF err # NoError
      THEN [ outcome |-> [status |-> "error", message |-> err],
             steps |-> << "getTaxProfileConfig" >> ]
      ELSE IF taxConfig = UndefinedConfig
      THEN [ outcome |-> [status |-> "error", message |-> "TypeError"],
             steps |-> << "getTaxProfileConfig", "calculateSozialabgaben" >> ]
      ELSE [ outcome |-> computeTaxProfile(req, resolvedTaxProfileId, taxConfig),
             steps |-> << "getTaxProfileConfig" >> \o computeSteps(req) ]

-----------------------------------------------------------------------------
(* The caller. It is linked against one of the two builds of the            *)
(* calculator, holds a request, and calls calculateTax with it: after       *)
(* editing one field of the request (the form), with a request of the test  *)
(* file's runScenario, or with a request that has invalid fields.           *)

\* the build in use: src/lib/tax-calculator.ts or the compiled profile build
Builds == {"source", "compiled"}

\* the fixed fields of the test file's runScenario
ScenarioZusatzbeitrag == Fin(290)

ScenarioWerbungskosten == Fin(0)

ScenarioAlter == Fin(30)

\* the request of the test file's runScenario(bruttoJahr, steuerklasse)
runScenario(bruttoJahr, steuerklasse) ==
  [ bruttoJahr |-> Fin(bruttoJahr),
    taxProfileId |-> Undefined,
    steuerklasse |-> steuerklasse,
    kirchensteuer |-> FALSE,
    kirchensteuerSatz |-> 9,
    zusatzbeitrag |-> ScenarioZusatzbeitrag,
    werbungskosten |-> ScenarioWerbungskosten,
    kinderAnzahl |-> Fin(IF steuerklasse = "II" THEN 1 ELSE 0),
    alter |-> ScenarioAlter ]

NoResult == [status |-> "none"]

\* a request all of whose fields are valid: the form's first content
BaseRequest == runScenario(5000000, "I")

\* the largest number of children the form is set to
MaxKinder == 2

\* the number of one-euro steps of each income sweep
SweepSteps == 45

\* values the form's fields are set to (cents; 1/100 percent; years)
BruttoValues == { Fin(0), Fin(100000), Fin(5000055), Fin(10000000), Fin(15000000) }

ZusatzbeitragValues == { Fin(0), Fin(290), Fin(20000) }

WerbungskostenValues == { Fin(0), Fin(100000), Fin(250000) }

KinderValues == { Fin(n) : n \in 0..MaxKinder }

AlterValues == { Fin(22), Fin(23), NaN }

KirchensteuerSaetze == {8, 9}

TaxProfileIds == { Undefined, "2026_current", "2026_legacy", "2025" }

\* what the caller holds once the call has ended
Return(req, r) ==
  /\ input' = req
  /\ result' = r.outcome
  /\ trace' = r.steps
  /\ UNCHANGED build

\* the call itself: the request is kept, the outcome and the calls recorded
Call(req) ==
  Return(req, IF build = "source" THEN calculateTax(req)
              ELSE calculateTaxProfile(req))

Init ==
  /\ build \in Builds
  /\ input = BaseRequest
  /\ result = NoResult
  /\ trace = << >>

SetBruttoJahr == \E b \in BruttoValues : Call([input EXCEPT !.bruttoJahr = b])

SetSteuerklasse == \E k \in Steuerklassen : Call([input EXCEPT !.steuerklasse = k])

SetKirchensteuer == \E f \in BOOLEAN : Call([input EXCEPT !.kirchensteuer = f])

SetKirchensteuerSatz ==
  \E s \in KirchensteuerSaetze : Call([input EXCEPT !.kirchensteuerSatz = s])

SetZusatzbeitrag ==
  \E z \in ZusatzbeitragValues : Call([input EXCEPT !.zusatzbeitrag = z])

SetWerbungskosten ==
  \E w \in WerbungskostenValues : Call([input EXCEPT !.werbungskosten = w])

SetKinderAnzahl == \E n \in KinderValues : Call([input EXCEPT !.kinderAnzahl = n])

SetAlter == \E a \in AlterValues : Call([input EXCEPT !.alter = a])

\* only the compiled build's request has a profile to choose
SetTaxProfileId ==
  /\ build = "compiled"
  /\ \E p \in TaxProfileIds : Call([input EXCEPT !.taxProfileId = p])

Next ==
  \/ SetBruttoJahr
  \/ SetSteuerklasse
  \/ SetKirchensteuer
  \/ SetKirchensteuerSatz
  \/ SetZusatzbeitrag
  \/ SetWerbungskosten
  \/ SetKinderAnzahl
  \/ SetAlter
  \/ SetTaxProfileId

Spec == Init /\ [][Next]_vars

-----------------------------------------------------------------------------
(* Reference scenarios: runScenario for the table's incomes, for incomes in *)
(* every tariff zone, and in sweeps of one euro (or one cent) a step across *)
(* the places where the procedures change their formula.                    *)

\* the incomes of the test table (euros)
TableBrutto == {20000, 50000, 100000}

\* further incomes (euros); with the table's they put the halved base of
\* Steuerklasse III into each of the five zones
ZoneBrutto == {0, 40000, 300000, 600000}

\* where the one-euro sweeps start (euros)
SweepStarts == {29350, 30950, 92320}

\* where the one-cent sweeps start (cents)
CentSweepStarts == {2022310}

SelectedBrutto ==
  { 100 * b : b \in TableBrutto \cup ZoneBrutto \cup SweepStarts }
    \cup CentSweepStarts

InSweep(b) == \E s \in SweepStarts : 100 * s <= b /\ b < 100 * (s + SweepSteps)

InCentSweep(b) == \E s \in CentSweepStarts : s <= b /\ b < s + SweepSteps

SelectBrutto ==
  \E b \in SelectedBrutto : Call(runScenario(b, input.steuerklasse))

SelectSteuerklasse ==
  \E k \in Steuerklassen : Call(runScenario(input.bruttoJahr.v, k))

StepEuro ==
  /\ InSweep(input.bruttoJahr.v)
  /\ Call(runScenario(input.bruttoJahr.v + 100, input.steuerklasse))

StepCent ==
  /\ InCentSweep(input.bruttoJahr.v)
  /\ Call(runScenario(input.bruttoJahr.v + 1, input.steuerklasse))

NextScenario ==
  \/ SelectBrutto
  \/ SelectSteuerklasse
  \/ StepEuro
  \/ StepCent

SpecScenario == Init /\ [][NextScenario]_vars

-----------------------------------------------------------------------------
(* Requests with invalid fields: every combination of a valid value, a      *)
(* negative one and a non-finite one in the five checked fields.            *)

InvalidBrutto == { Fin(5000000), Fin(-100), NaN, PosInfinity, NegInfinity }

InvalidZusatzbeitrag == { Fin(290), Fin(-1), NegInfinity }

InvalidWerbungskosten == { Fin(0), Fin(-1), NaN }

InvalidKinder == { Fin(0), Fin(-1), PosInfinity }

InvalidAlter == { Fin(30), Fin(-1), NaN }

Submit ==
  \E b \in InvalidBrutto, z \in InvalidZusatzbeitrag,
     w \in InvalidWerbungskosten, n \in InvalidKinder, a \in InvalidAlter :
    Call([BaseRequest EXCEPT !.bruttoJahr = b, !.zusatzbeitrag = z,
                        !.werbungskosten = w, !.kinderAnzahl = n, !.alter = a])

NextValidation == Submit

SpecValidation == Init /\ [][NextValidation]_vars

-----------------------------------------------------------------------------
(* calculateSoli on its own, for amounts of income tax in whole euros on    *)
(* both sides of the exemption threshold.                                   *)

\* how many euros below and above soliFreigrenze the amounts go
SoliSpan == 60

SoliArguments ==
  { TAX_2026.soliFreigrenze + 100 * i : i \in -SoliSpan..SoliSpan }

\* the constants the compiled build uses when no profile is named
DefaultTaxConfig == getTaxProfileConfig(Undefined)

ApplySoli ==
  \E l \in SoliArguments :
    /\ input' = [lohnsteuer |-> l]
    /\ result' = [ status |-> "ok",
                   solidaritaetszuschlag |->
                     IF build = "source" THEN calculateSoli(l)
                     ELSE calculateSoliProfile(l, DefaultTaxConfig) ]
    /\ trace' = << "calculateSoli" >>
    /\ UNCHANGED build

NextSoli == ApplySoli

SpecSoli == Init /\ [][NextSoli]_vars

-----------------------------------------------------------------------------
(* calculateTarifClassFiveSix on its own, for a base that runs in steps of   *)
(* one euro from just above stkl5Grenze1 to the end of the window, as a      *)
(* loop over incomes does.                                                   *)

\* how many euros above stkl5Grenze1 the base goes
Grenze1Window == 1000

\* the two candidates and the tax returned, for the base zve (cents)
classFiveSixOutcome(b, zve) ==
  [ status |-> "ok",
    vergl |-> IF b = "source" THEN classFiveSixVergl(zve \div 100)
              ELSE classFiveSixVerglProfile(zve \div 100, DefaultTaxConfig),
    hoch |-> IF b = "source" THEN classFiveSixHoch(zve \div 100)
             ELSE classFiveSixHochProfile(zve \div 100, DefaultTaxConfig),
    lohnsteuer |-> IF b = "source" THEN calculateTarifClassFiveSix(zve)
                   ELSE calculateTarifClassFiveSixProfile(zve, DefaultTaxConfig) ]

InitGrenze1 ==
  /\ build \in Builds
  /\ input = [zve |-> (TAX_2026.stkl5Grenze1 + 1) * 100]
  /\ result = classFiveSixOutcome(build, (TAX_2026.stkl5Grenze1 + 1) * 100)
  /\ trace = << "calculateTarifClassFiveSix" >>

StepGrenze1 ==
  /\ input.zve < (TAX_2026.stkl5Grenze1 + Grenze1Window) * 100
  /\ input' = [zve |-> input.zve + 100]
  /\ result' = classFiveSixOutcome(build, input.zve + 100)
  /\ UNCHANGED <<build, trace>>

NextGrenze1 == StepGrenze1

\* the loop goes on until the window ends
SpecGrenze1 == InitGrenze1 /\ [][NextGrenze1]_vars /\ WF_vars(NextGrenze1)

-----------------------------------------------------------------------------
(* The series generators and the profile queries, and callers that each      *)
(* hold a request of their own and call the module's functions in any        *)
(* order. JavaScript runs every call to its end before the next one starts,  *)
(* so calls of different callers interleave call by call.                    *)

\* for (let brutto = 0; brutto <= 200000; brutto += 5000), in cents
WhatIfMax == 20000000

WhatIfStep == 500000

WhatIfPoints == WhatIfMax \div WhatIfStep + 1

\* { ...input, bruttoJahr: brutto }: a copy of the caller's record
whatIfRequest(req, brutto) == [req EXCEPT !.bruttoJahr = Fin(brutto)]

\* data.push({ brutto, netto, steuern, abgaben })
whatIfTuple(brutto, r) == [brutto |-> brutto, netto |-> r.nettoJahr, steuern |-> r.gesamtSteuern, abgaben |-> r.gesamtSozialabgaben]

\* the first iteration of a loop in which calculateTax throws, 0 if none
firstThrow(calls) ==
  IF \E i \in DOMAIN calls : calls[i].status = "error"
  THEN CHOOSE i \in DOMAIN calls :
         /\ calls[i].status = "error"
         /\ \A j \in 1..(i - 1) : calls[j].status # "error"
  ELSE 0

\* the loop's outcome: the exception of the first call that throws, or the
\* tuples of all iterations (value), and the caller's record after the call
whatIfReturn(req, calls) ==
  IF firstThrow(calls) # 0
  THEN [ value |-> [status |-> "error", message |-> calls[firstThrow(calls)].message],
         input |-> req ]
  ELSE [ value |-> [status |-> "ok", data |-> [i \in DOMAIN calls |-> whatIfTuple((i - 1) * WhatIfStep, calls[i])]],
         input |-> req ]

\* variant: the loop writes bruttoJahr into the caller's record
generateWhatIfDataInPlace(req) == whatIfReturn(whatIfRequest(req, WhatIfMax), [i \in 1..WhatIfPoints |-> calculateTax(whatIfRequest(req, (i - 1) * WhatIfStep)).outcome])

\* variant: the loop stops before the last income (brutto < 200000)
generateWhatIfDataShort(req) == whatIfReturn(req, [i \in 1..(WhatIfPoints - 1) |-> calculateTax(whatIfRequest(req, (i - 1) * WhatIfStep)).outcome])

\* generateWhatIfData(input)
generateWhatIfData(req) == whatIfReturn(req, [i \in 1..WhatIfPoints |-> calculateTax(whatIfRequest(req, (i - 1) * WhatIfStep)).outcome])

\* generateWhatIfData(input) of the compiled build
generateWhatIfDataProfile(req) == whatIfReturn(req, [i \in 1..WhatIfPoints |-> calculateTaxProfile(whatIfRequest(req, (i - 1) * WhatIfStep)).outcome])

\* for (let einkommen = 0; einkommen <= 300000; einkommen += 1000), in cents
ProgressionMax == 30000000

ProgressionStep == 100000

ProgressionPoints == ProgressionMax \div ProgressionStep + 1

\* the request generateProgressionData computes each point with
progressionRequest(einkommen, taxProfileId) ==
  [ bruttoJahr |-> Fin(einkommen),
    taxProfileId |-> taxProfileId,
    steuerklasse |-> "I",
    kirchensteuer |-> FALSE,
    kirchensteuerSatz |-> 9,
    zusatzbeitrag |-> Fin(170),
    werbungskosten |-> Fin(0),
    kinderAnzahl |-> Fin(0),
    alter |-> Fin(30) ]

\* a rate in percent is a Dec: c whole percent, f the fraction over Frac
\* (slope100 / 100 * (d / 10000) + base100) / 100 percent, for d whole euros,
\* slope100 * d below 2^31
marginalRate(slope100, d, base100) == DecAdd(Dec((slope100 * d) \div Frac, (slope100 * d) % Frac), Dec(base100 \div 100, (base100 % 100) * (Frac \div 100)))

\* Math.min(45, Math.max(0, grenzsteuersatz))
clampRate(r) == DecMin(Dec(45, 0), IF r.c < 0 THEN Dec(0, 0) ELSE r)

\* variant: the top zone is given the rate of the zone below
grenzsteuersatzOfFlat42(zve) == clampRate(IF zve <= TAX_2026.grundfreibetrag * 100 THEN Dec(0, 0) ELSE IF zve <= TAX_2026.zone1End * 100 THEN marginalRate(186460, zve \div 100 - TAX_2026.grundfreibetrag, 1400) ELSE IF zve <= TAX_2026.zone2End * 100 THEN marginalRate(35328, zve \div 100 - 17443, 2397) ELSE Dec(42, 0))

\* the marginal rate at zve (cents, whole euros) by the zones of TAX_2026
grenzsteuersatzOf(zve) ==
  clampRate(
    IF zve <= TAX_2026.grundfreibetrag * 100 THEN Dec(0, 0)
    ELSE IF zve <= TAX_2026.zone1End * 100
      THEN marginalRate(186460, zve \div 100 - TAX_2026.grundfreibetrag, 1400)
    ELSE IF zve <= TAX_2026.zone2End * 100
      THEN marginalRate(35328, zve \div 100 - 17443, 2397)
    ELSE IF zve <= TAX_2026.zone3End * 100 THEN Dec(42, 0)
    ELSE Dec(45, 0))

\* the marginal rate at zve by the zones of the profile
grenzsteuersatzOfProfile(zve, taxConfig) ==
  clampRate(
    IF zve <= taxConfig.grundfreibetrag * 100 THEN Dec(0, 0)
    ELSE IF zve <= taxConfig.zone1End * 100
      THEN marginalRate(2 * taxConfig.zone2CoeffA, zve \div 100 - taxConfig.grundfreibetrag, 1400)
    ELSE IF zve <= taxConfig.zone2End * 100
      THEN marginalRate(2 * taxConfig.zone3CoeffA, zve \div 100 - taxConfig.zone1End, 2397)
    ELSE IF zve <= taxConfig.zone3End * 100 THEN Dec(42, 0)
    ELSE Dec(45, 0))

\* einkommen > 0 ? (result.lohnsteuer / einkommen) * 100 : 0
durchschnittssteuersatzOf(lohnsteuer, einkommen) == IF einkommen > 0 THEN Rate(lohnsteuer, einkommen \div 100) ELSE ZeroRate

progressionTuple(einkommen, r) == [einkommen |-> einkommen, grenzsteuersatz |-> grenzsteuersatzOf(r.zuVersteuerndesEinkommen), durchschnittssteuersatz |-> durchschnittssteuersatzOf(r.lohnsteuer, einkommen)]

progressionTupleProfile(einkommen, r, taxConfig) == [einkommen |-> einkommen, grenzsteuersatz |-> grenzsteuersatzOfProfile(r.zuVersteuerndesEinkommen, taxConfig), durchschnittssteuersatz |-> durchschnittssteuersatzOf(r.lohnsteuer, einkommen)]

progressionReturn(calls) ==
  IF firstThrow(calls) # 0
  THEN [ status |-> "error", message |-> calls[firstThrow(calls)].message ]
  ELSE [ status |-> "ok",
         data |-> [i \in DOMAIN calls |-> progressionTuple((i - 1) * ProgressionStep, calls[i])] ]

progressionReturnProfile(calls, taxConfig) ==
  IF firstThrow(calls) # 0
  THEN [ status |-> "error", message |-> calls[firstThrow(calls)].message ]
  ELSE [ status |-> "ok",
         data |-> [i \in DOMAIN calls |-> progressionTupleProfile((i - 1) * ProgressionStep, calls[i], taxConfig)] ]

\* generateProgressionData()
generateProgressionData == progressionReturn([i \in 1..ProgressionPoints |-> calculateTax(progressionRequest((i - 1) * ProgressionStep, Undefined)).outcome])

\* generateProgressionData(taxProfileId) of the compiled build
generateProgressionDataProfile(taxProfileId) == progressionReturnProfile([i \in 1..ProgressionPoints |-> calculateTaxProfile(progressionRequest((i - 1) * ProgressionStep, taxProfileId)).outcome], getTaxProfileConfig(taxProfileId))

\* Object.keys(TAX_PROFILES), in the order of the table
TaxProfileKeys == << "2026_current", "2026_legacy" >>

\* getTaxProfiles()
getTaxProfiles == [i \in 1..Len(TaxProfileKeys) |-> [id |-> TaxProfileKeys[i], year |-> TAX_PROFILES[TaxProfileKeys[i]].year, label |-> TAX_PROFILES[TaxProfileKeys[i]].label, description |-> TAX_PROFILES[TaxProfileKeys[i]].description]]

\* the callers, and the requests they hold
Callers == {1, 2}

CallerRequests == { BaseRequest, [BaseRequest EXCEPT !.bruttoJahr = NaN], runScenario(10000000, "III"), [BaseRequest EXCEPT !.taxProfileId = "2026_legacy"], [BaseRequest EXCEPT !.alter = NaN] }

\* the module's table of constants
ModuleConstants(b) == IF b = "source" THEN TAX_2026 ELSE TAX_PROFILES

\* input is each caller's own record, result what its last call returned,
\* trace the module's constants as they stand
InitCallers ==
  /\ build \in Builds
  /\ input \in [Callers -> CallerRequests]
  /\ result = [c \in Callers |-> [fn |-> "none"]]
  /\ trace = ModuleConstants(build)

\* the call of caller c returns r.value and leaves c's record as r.input; no
\* function of the module assigns to the constants
Returned(c, fn, r) ==
  /\ result' = [result EXCEPT ![c] = [fn |-> fn, value |-> r.value]]
  /\ input' = [input EXCEPT ![c] = r.input]
  /\ UNCHANGED <<build, trace>>

CallCalculateTax == \E c \in Callers : Returned(c, "calculateTax", [value |-> (IF build = "source" THEN calculateTax(input[c]) ELSE calculateTaxProfile(input[c])).outcome, input |-> input[c]])

CallGenerateWhatIfData == \E c \in Callers : Returned(c, "generateWhatIfData", IF build = "source" THEN generateWhatIfData(input[c]) ELSE generateWhatIfDataProfile(input[c]))

CallGenerateProgressionData == \E c \in Callers : Returned(c, "generateProgressionData", [value |-> IF build = "source" THEN generateProgressionData ELSE generateProgressionDataProfile(input[c].taxProfileId), input |-> input[c]])

CallGetTaxProfiles == build = "compiled" /\ \E c \in Callers : Returned(c, "getTaxProfiles", [value |-> getTaxProfiles, input |-> input[c]])

CallGetTaxProfileConfig == build = "compiled" /\ \E c \in Callers : Returned(c, "getTaxProfileConfig", [value |-> getTaxProfileConfig(input[c].taxProfileId), input |-> input[c]])

NextCallers ==
  \/ CallCalculateTax
  \/ CallGenerateWhatIfData
  \/ CallGenerateProgressionData
  \/ CallGetTaxProfiles
  \/ CallGetTaxProfileConfig

SpecCallers == InitCallers /\ [][NextCallers]_vars

-----------------------------------------------------------------------------
(* calculateTarif on its own, for a base that runs cent by cent across each  *)
(* of the four thresholds of the tariff in use.                              *)

\* how many cents below and above a threshold the base goes
TarifSpan == 120

\* the thresholds (euros) of the tariff of build b under profile p
tarifThresholds(b, p) ==
  IF b = "source"
  THEN { TAX_2026.grundfreibetrag, TAX_2026.zone1End, TAX_2026.zone2End, TAX_2026.zone3End }
  ELSE { TAX_PROFILES[p].grundfreibetrag, TAX_PROFILES[p].zone1End, TAX_PROFILES[p].zone2End, TAX_PROFILES[p].zone3End }

tarifOutcome(b, zve, p) == [status |-> "ok", tarif |-> IF b = "source" THEN calculateTarif(zve) ELSE calculateTarifProfile(zve, TAX_PROFILES[p])]

InitTarif ==
  /\ build \in Builds
  /\ \E p \in (IF build = "source" THEN {Undefined} ELSE DOMAIN TAX_PROFILES) :
       \E t \in tarifThresholds(build, p) :
         /\ input = [zve |-> 100 * t - TarifSpan, threshold |-> t, taxProfileId |-> p]
         /\ result = tarifOutcome(build, 100 * t - TarifSpan, p)
  /\ trace = << "calculateTarif" >>

StepTarif ==
  /\ input.zve < 100 * input.threshold + TarifSpan
  /\ input' = [input EXCEPT !.zve = input.zve + 1]
  /\ result' = tarifOutcome(build, input.zve + 1, input.taxProfileId)
  /\ UNCHANGED <<build, trace>>

SpecTarif == InitTarif /\ [][StepTarif]_vars

-----------------------------------------------------------------------------
(* calculatePVSatz on its own, for ages on both sides of 23 and for numbers  *)
(* of children beyond the five that are counted.                             *)

\* the oldest age and the largest number of children it is called with
PVMaxAlter == 27

PVMaxKinder == 7

ApplyPVSatz ==
  \E a \in 0..PVMaxAlter, k \in 0..PVMaxKinder :
    /\ input' = [alter |-> a, kinderAnzahl |-> k]
    /\ result' = [ status |-> "ok",
                   pvSatz |-> IF build = "source" THEN calculatePVSatz(a, k)
                              ELSE calculatePVSatzProfile(a, k, DefaultTaxConfig) ]
    /\ trace' = << "calculatePVSatz" >>
    /\ UNCHANGED build

SpecPVSatz == Init /\ [][ApplyPVSatz]_vars

-----------------------------------------------------------------------------
(* Properties *)

Abs(n) == IF n < 0 THEN -n ELSE n

\* a numeric field that is non-finite or negative
IsInvalid(x) == x.kind # "finite" \/ x.v < 0

\* the five checked fields, in the order the checks are claimed to run
CheckedFields ==
  << "bruttoJahr", "zusatzbeitrag", "werbungskosten", "kinderAnzahl", "alter" >>

MessageOf ==
  [ bruttoJahr |-> "bruttoJahr muss eine nicht-negative Zahl sein.",
    zusatzbeitrag |-> "zusatzbeitrag muss eine nicht-negative Zahl sein.",
    werbungskosten |-> "werbungskosten muss eine nicht-negative Zahl sein.",
    kinderAnzahl |-> "kinderAnzahl muss eine nicht-negative Zahl sein.",
    alter |-> "alter muss eine nicht-negative Zahl sein." ]

ValidationMessages == { MessageOf[CheckedFields[i]] : i \in 1..5 }

ErrorFields == {"status", "message"}

\* the functions that compute a contribution or a tax
ComputationSteps ==
  { "calculateSozialabgaben", "calculateTarif", "calculateSplittingTarif",
    "calculateTarifClassFiveSix", "calculateSoli", "calculateKirchensteuer" }

AnyInvalid(req) == \E i \in 1..5 : IsInvalid(req[CheckedFields[i]])

\* C1: a request with a non-finite or negative bruttoJahr, zusatzbeitrag,
\* werbungskosten, kinderAnzahl or alter ends in a validation error; no
\* contribution or tax has been computed and no result record is returned.
C1_InvalidRequestRejected ==
  AnyInvalid(input) =>
    /\ result.status = "error"
    /\ result.message \in ValidationMessages
    /\ DOMAIN result = ErrorFields
    /\ \A i \in 1..Len(trace) : trace[i] \notin ComputationSteps

\* bruttoJahr = -1 with otherwise valid fields has been rejected
C1_NegativeBruttoRejected ==
  /\ build = "source"
  /\ input.bruttoJahr.kind = "finite" /\ input.bruttoJahr.v = -100
  /\ \A i \in 2..5 : ~IsInvalid(input[CheckedFields[i]])
  /\ result.status = "error"
  /\ trace = << >>

\* C2: for a request whose five numeric fields are finite and non-negative,
\* lohnsteuer, the four contributions and nettoJahr are >= 0 and total
\* deductions do not exceed bruttoJahr.
C2_NonNegativeAndBounded ==
  result.status = "ok" =>
    /\ result.lohnsteuer >= 0
    /\ result.rentenversicherung >= 0
    /\ result.arbeitslosenversicherung >= 0
    /\ result.krankenversicherung >= 0
    /\ result.pflegeversicherung >= 0
    /\ result.nettoJahr >= 0
    /\ result.gesamtSteuern + result.gesamtSozialabgaben <= result.bruttoJahr

\* a valid request whose deductions exceed the gross income
C2_DeductionsExceedBrutto ==
  /\ build = "source"
  /\ ~AnyInvalid(input)
  /\ input.bruttoJahr.v = 5000000 /\ input.zusatzbeitrag.v = 20000
  /\ result.status = "ok"
  /\ result.nettoJahr < 0

\* C3: with the Steuerklasse and all other fields fixed, a request with a
\* larger or equal bruttoJahr never gets a smaller lohnsteuer.
C3_LohnsteuerMonotone ==
  [][ ( /\ result.status = "ok" /\ result'.status = "ok"
        /\ input'.steuerklasse = input.steuerklasse
        /\ input.bruttoJahr.v <= input'.bruttoJahr.v )
      => result.lohnsteuer <= result'.lohnsteuer ]_vars

\* Steuerklasse V at 30990 euros, after lohnsteuer fell from 6170 to 6064
C3_LohnsteuerFell ==
  /\ build = "source"
  /\ input.steuerklasse = "V" /\ input.bruttoJahr.v = 3099000
  /\ result.status = "ok"
  /\ result.lohnsteuer = 606400

\* the table of the tests (euros)
BmfPruefTabelle ==
  ( 2000000 :> [I |-> 380, II |-> 0, III |-> 0, IV |-> 380, V |-> 2234,
                VI |-> 2766] )
  @@ ( 5000000 :> [I |-> 6788, II |-> 5580, III |-> 2810, IV |-> 6788,
                   V |-> 12010, VI |-> 12542] )
  @@ ( 10000000 :> [I |-> 23248, II |-> 21634, III |-> 15012, IV |-> 23248,
                    V |-> 30157, VI |-> 30689] )

\* the incomes of the table (cents)
TableIncomes == DOMAIN BmfPruefTabelle

\* the tolerance of the tests (euros)
Tolerance(brutto, steuerklasse) ==
  IF steuerklasse = "V" \/ steuerklasse = "VI" THEN 450
  ELSE IF brutto = 10000000 THEN 180
  ELSE 160

\* C4: for the reference scenario at 20000, 50000 and 100000 euros, lohnsteuer
\* lies within the tolerance of the table's value, for every Steuerklasse.
C4_WithinTolerance ==
  ( result.status = "ok" /\ input.bruttoJahr.v \in TableIncomes )
  => Abs(result.lohnsteuer
           - 100 * BmfPruefTabelle[input.bruttoJahr.v][input.steuerklasse])
       <= 100 * Tolerance(input.bruttoJahr.v, input.steuerklasse)

\* the default profile at 100000 euros in Steuerklasse I: lohnsteuer is
\* 23020.45, which is 227.55 below the table's 23248
C4_OutsideTolerance ==
  /\ build = "compiled"
  /\ input.taxProfileId = Undefined
  /\ input.bruttoJahr.v = 10000000 /\ input.steuerklasse = "I"
  /\ result.status = "ok"
  /\ result.lohnsteuer = 2302045

\* C5: in Steuerklasse III lohnsteuer is exactly twice the tariff of half the
\* base, the base being the taxable income rounded down to a multiple of 36.
C5_SplittingSymmetry ==
  ( result.status = "ok" /\ input.steuerklasse = "III" ) =>
    /\ result.zvEForLohnsteuer % 3600 = 0
    /\ result.zvEForLohnsteuer <= result.zuVersteuerndesEinkommen
    /\ result.zuVersteuerndesEinkommen < result.zvEForLohnsteuer + 3600
    /\ result.lohnsteuer =
         IF build = "source"
         THEN 2 * calculateTarif(result.zvEForLohnsteuer \div 2)
         ELSE 2 * calculateTarifProfile(result.zvEForLohnsteuer \div 2,
                                        DefaultTaxConfig)

\* the zone of the tariff that half of the rounded base falls into
HalvedBaseZone(zve) ==
  LET x == (zve \div 2) \div 100
  IN  IF x <= TAX_2026.grundfreibetrag THEN 1
      ELSE IF x <= TAX_2026.zone1End THEN 2
      ELSE IF x <= TAX_2026.zone2End THEN 3
      ELSE IF x <= TAX_2026.zone3End THEN 4
      ELSE 5

\* Steuerklasse III with half the base in the top zone has been computed
C5_TopZoneReached ==
  /\ build = "source"
  /\ input.steuerklasse = "III"
  /\ result.status = "ok"
  /\ HalvedBaseZone(result.zvEForLohnsteuer) = 5
  /\ result.lohnsteuer > 0

\* how far above soliFreigrenze "just above" reaches (cents)
SoliJustAbove == 50 * 100

\* C6: calculateSoli is 0 at soliFreigrenze, and just above it is
\* (lohnsteuer - soliFreigrenze) x soliMinderungssatz, to the cent, which is
\* less than lohnsteuer x soliSatz.
C6_SoliAtBoundary ==
  trace = << "calculateSoli" >> =>
    LET l == input.lohnsteuer
        soli == result.solidaritaetszuschlag
        f == TAX_2026.soliFreigrenze
    IN  /\ l = f => soli = 0
        /\ (f < l /\ l <= f + SoliJustAbove) =>
             /\ soli = RoundCents(Scale(l - f, TAX_2026.soliMinderungssatz, 1000))
             /\ 1000 * soli < TAX_2026.soliSatz * l

\* calculateSoli(20351) has returned 0
C6_NoSoliAboveFreigrenze ==
  /\ build = "source"
  /\ trace = << "calculateSoli" >>
  /\ input.lohnsteuer = TAX_2026.soliFreigrenze + 100
  /\ result.solidaritaetszuschlag = 0

\* C7: for bruttoJahr = 0 the contributions, the taxes, nettoJahr and
\* nettoMonat are 0 and the three percentages are 0, without a division by 0.
C7_ZeroIncome ==
  ( result.status = "ok" /\ input.bruttoJahr.v = 0 ) =>
    /\ result.rentenversicherung = 0
    /\ result.arbeitslosenversicherung = 0
    /\ result.krankenversicherung = 0
    /\ result.pflegeversicherung = 0
    /\ result.gesamtSozialabgaben = 0
    /\ result.lohnsteuer = 0
    /\ result.solidaritaetszuschlag = 0
    /\ result.kirchensteuer = 0
    /\ result.gesamtSteuern = 0
    /\ result.nettoJahr = 0
    /\ result.nettoMonat = 0
    /\ result.steuerSatz.num = 0 /\ result.steuerSatz.den # 0
    /\ result.abgabenSatz.num = 0 /\ result.abgabenSatz.den # 0
    /\ result.nettoQuote.num = 0 /\ result.nettoQuote.den # 0

\* zero income in Steuerklasse VI with church tax has been computed
C7_ZeroIncomeComputed ==
  /\ build = "source"
  /\ input.bruttoJahr.v = 0
  /\ input.steuerklasse = "VI" /\ input.kirchensteuer
  /\ result.status = "ok"
  /\ result.nettoJahr = 0

\* C8: the error raised is the one of the first invalid field in the order
\* bruttoJahr, zusatzbeitrag, werbungskosten, kinderAnzahl, alter.
C8_FirstInvalidFieldReported ==
  result.status = "error" =>
    \E i \in 1..5 :
      /\ IsInvalid(input[CheckedFields[i]])
      /\ \A j \in 1..(i - 1) : ~IsInvalid(input[CheckedFields[j]])
      /\ result.message = MessageOf[CheckedFields[i]]

\* zusatzbeitrag and alter were both invalid; zusatzbeitrag was reported
C8_EarlierOfTwoReported ==
  /\ build = "compiled"
  /\ ~IsInvalid(input.bruttoJahr)
  /\ IsInvalid(input.zusatzbeitrag) /\ IsInvalid(input.alter)
  /\ result.status = "error"
  /\ result.message = MessageOf.zusatzbeitrag

\* C9: in Steuerklasse VI both allowances of the result are 0 and neither is
\* subtracted: the taxable income is bruttoJahr less vorsorgepauschale.
C9_ClassSixNoAllowances ==
  ( result.status = "ok" /\ input.steuerklasse = "VI" ) =>
    /\ result.werbungskostenPauschbetrag = 0
    /\ result.sonderausgabenPauschbetrag = 0
    /\ result.zuVersteuerndesEinkommen
         = Max(0, input.bruttoJahr.v - result.vorsorgepauschale)

\* Steuerklasse VI with declared werbungskosten has been computed
C9_ClassSixWithWerbungskosten ==
  /\ build = "source"
  /\ input.steuerklasse = "VI"
  /\ input.werbungskosten.v = 250000
  /\ input.bruttoJahr.v = 5000055
  /\ result.status = "ok"
  /\ result.zuVersteuerndesEinkommen > 0

\* C10: at the same gross income Steuerklasse II (with its one child) never
\* pays more lohnsteuer than Steuerklasse I, and pays less whenever
\* Steuerklasse I pays any.
C10_SingleParentRelief ==
  [][ ( /\ result.status = "ok" /\ result'.status = "ok"
        /\ input.steuerklasse = "I" /\ input'.steuerklasse = "II"
        /\ input'.bruttoJahr.v = input.bruttoJahr.v )
      => /\ result'.lohnsteuer <= result.lohnsteuer
         /\ result.lohnsteuer > 0 => result'.lohnsteuer < result.lohnsteuer
    ]_vars

\* the lohnsteuer of Steuerklasse I in the reference scenario at 50000 euros
ClassOneAtFiftyThousand == calculateTax(BaseRequest).outcome.lohnsteuer

\* Steuerklasse II at 50000 euros has been computed and pays less
C10_ReliefAtFiftyThousand ==
  /\ build = "source"
  /\ input.steuerklasse = "II" /\ input.kinderAnzahl.v = 1
  /\ input.bruttoJahr.v = 5000000
  /\ result.status = "ok"
  /\ ClassOneAtFiftyThousand > 0
  /\ result.lohnsteuer < ClassOneAtFiftyThousand

C12_DefaultProfileResolved ==
  [][ /\ DefaultTaxConfig = CurrentProfileConfig
      /\ ( /\ build = "compiled"
           /\ input.taxProfileId = Undefined
           /\ input' = [input EXCEPT !.taxProfileId = "2026_current"]
           /\ result.status # "none" )
         => /\ result' = result
            /\ result.status = "ok" => result.taxProfileId = "2026_current"
    ]_vars

\* a computed request that names "2026_current"
C12_CurrentProfileNamed ==
  /\ build = "compiled"
  /\ input.taxProfileId = "2026_current"
  /\ input.steuerklasse = "III" /\ input.bruttoJahr.v = 10000000
  /\ result.status = "ok"
  /\ result.taxProfileId = "2026_current"
  /\ result.lohnsteuer > 0

\* the keys of the profile table, and the constant sets it holds
KnownTaxProfileIds == DOMAIN TAX_PROFILES

KnownTaxConfigs == { TAX_PROFILES[p] : p \in KnownTaxProfileIds }

\* C13: the profile lookup fails for an identifier that is not a key of the
\* profile table: it returns neither a constant set nor an empty value, so a
\* computation that names such a profile ends in the lookup, before any other
\* callee runs; the default profile is not substituted.
C13_UnknownProfileFails ==
  ( /\ build = "compiled"
    /\ result.status # "none"
    /\ input.taxProfileId # Undefined
    /\ input.taxProfileId \notin KnownTaxProfileIds )
  => /\ getTaxProfileConfig(input.taxProfileId) # UndefinedConfig
     /\ getTaxProfileConfig(input.taxProfileId) \notin KnownTaxConfigs
     /\ result.status = "error"
     /\ trace = << "getTaxProfileConfig" >>

\* a valid request naming the unknown profile "2025": the lookup returned the
\* empty value and calculateSozialabgaben was entered with it
C13_UnknownProfileReturnsEmpty ==
  /\ build = "compiled"
  /\ input.taxProfileId = "2025"
  /\ getTaxProfileConfig(input.taxProfileId) = UndefinedConfig
  /\ trace = << "getTaxProfileConfig", "calculateSozialabgaben" >>
  /\ result.status = "error"
  /\ result.message = "TypeError"

TaxOf(b, req) == (IF b = "source" THEN calculateTax(req) ELSE calculateTaxProfile(req)).outcome

\* the tuple of the what-if series for the result r at brutto
IsWhatIfTuple(t, brutto, r) == t.brutto = brutto /\ t.netto = r.nettoJahr /\ t.steuern = r.gesamtSteuern /\ t.abgaben = r.gesamtSozialabgaben

\* C15: for a request whose fields other than bruttoJahr are valid,
\* generateWhatIfData returns 41 tuples for brutto = 0, 5000, ..., 200000 in
\* this order, each with nettoJahr, gesamtSteuern and gesamtSozialabgaben of
\* calculateTax for the request with that bruttoJahr; the request's own
\* bruttoJahr has no influence, and the same request gives the same series.
C15_WhatIfSeries ==
  \A c \in Callers :
    ( /\ result[c].fn = "generateWhatIfData"
      /\ validate(whatIfRequest(input[c], 0)) = NoError )
    => /\ result[c].value.status = "ok"
       /\ Len(result[c].value.data) = 41
       /\ \A i \in 1..41 :
            IsWhatIfTuple(result[c].value.data[i], 500000 * (i - 1),
                          TaxOf(build, whatIfRequest(input[c], 500000 * (i - 1))))
       /\ \A d \in Callers :
            ( /\ result[d].fn = "generateWhatIfData"
              /\ whatIfRequest(input[d], 0) = whatIfRequest(input[c], 0) )
            => result[d].value = result[c].value

\* caller 1 holds a request whose bruttoJahr is NaN, caller 2 the same request
\* with bruttoJahr 50000, and both have the series up to 200000
C15_SeriesIgnoresOwnBrutto ==
  /\ input[1].bruttoJahr.kind = "NaN"
  /\ input[2].bruttoJahr.v = 5000000
  /\ whatIfRequest(input[1], 0) = whatIfRequest(input[2], 0)
  /\ result[1].fn = "generateWhatIfData"
  /\ result[2].fn = "generateWhatIfData"
  /\ result[1].value.status = "ok"
  /\ result[1].value.data[41].brutto = 20000000
  /\ result[1].value.data[41].steuern > result[1].value.data[40].steuern
  /\ result[2].value = result[1].value

\* C16: selecting "2026_legacy" instead of "2026_current" for the same request
\* leaves the validation outcome and the sequence of procedures called as they
\* are, and every result field that rests on constants the two profiles share.
C16_ProfileChangesTariffOnly ==
  [][ ( /\ build = "compiled"
        /\ result.status # "none"
        /\ input.taxProfileId = "2026_current"
        /\ input' = [input EXCEPT !.taxProfileId = "2026_legacy"] )
      => /\ result'.status = result.status
         /\ trace' = trace
         /\ result.status = "error" => result' = result
         /\ result.status = "ok" =>
              /\ result'.rentenversicherung = result.rentenversicherung
              /\ result'.arbeitslosenversicherung = result.arbeitslosenversicherung
              /\ result'.krankenversicherung = result.krankenversicherung
              /\ result'.pflegeversicherung = result.pflegeversicherung
              /\ result'.gesamtSozialabgaben = result.gesamtSozialabgaben
              /\ result'.werbungskostenPauschbetrag = result.werbungskostenPauschbetrag
              /\ result'.sonderausgabenPauschbetrag = result.sonderausgabenPauschbetrag
              /\ result'.vorsorgepauschale = result.vorsorgepauschale
              /\ result'.zuVersteuerndesEinkommen = result.zuVersteuerndesEinkommen
              /\ result'.zvEForLohnsteuer = result.zvEForLohnsteuer
    ]_vars

\* a request under "2026_legacy" whose income tax is the legacy tariff's and
\* not the current one's (23020.45)
C16_LegacyTariffApplied ==
  /\ build = "compiled"
  /\ input.taxProfileId = "2026_legacy"
  /\ input.steuerklasse = "I"
  /\ input.bruttoJahr.v = 10000000
  /\ result.status = "ok"
  /\ result.zuVersteuerndesEinkommen > 0
  /\ result.lohnsteuer > 2302045

\* the thresholds and coefficients of the tariff of src/lib/tax-calculator.ts
SourceZoneConstants == [grundfreibetrag |-> TAX_2026.grundfreibetrag, zone1End |-> TAX_2026.zone1End, zone2End |-> TAX_2026.zone2End, zone3End |-> TAX_2026.zone3End, zone2CoeffA |-> 93230, zone3CoeffA |-> 17664, zone3Base |-> 101513, zone4Offset |-> 1091192, zone5Offset |-> 1918588]

\* the zone of the truncated base x: a threshold belongs to the lower zone
ZoneOf(x, k) ==
  IF x <= k.grundfreibetrag THEN 0
  ELSE IF x <= k.zone1End THEN 1
  ELSE IF x <= k.zone2End THEN 2
  ELSE IF x <= k.zone3End THEN 3
  ELSE 4

\* the value of the formula of a zone at x
ZoneValue(zone, x, k) ==
  CASE zone = 0 -> DecZero
    [] zone = 1 -> DecAdd(QuadTerm(k.zone2CoeffA, x - k.grundfreibetrag), Dec(14 * (x - k.grundfreibetrag), 0))
    [] zone = 2 -> DecAdd(DecAdd(QuadTerm(k.zone3CoeffA, x - k.zone1End), Scale(x - k.zone1End, 2397, 100)), Dec(k.zone3Base, 0))
    [] zone = 3 -> Dec(42 * x - k.zone4Offset, 0)
    [] zone = 4 -> Dec(45 * x - k.zone5Offset, 0)

\* the rounding calculateTarif of build b ends with
TarifRounded(b, v) == IF b = "source" THEN FloorEuro(v) ELSE RoundCents(v)

\* C17: calculateTarif truncates its base to whole euros x, returns 0 for x up
\* to grundfreibetrag and otherwise the value of exactly the formula of the
\* zone x lies in, a base equal to a threshold lying in the lower zone.
C17_ZoneSelected ==
  LET x == input.zve \div 100
      k == IF build = "source" THEN SourceZoneConstants ELSE TAX_PROFILES[input.taxProfileId]
  IN  /\ x * 100 <= input.zve /\ input.zve < (x + 1) * 100
      /\ result.tarif = TarifRounded(build, ZoneValue(ZoneOf(x, k), x, k))
      /\ x <= k.grundfreibetrag => result.tarif = 0

\* a base 99 cents above the threshold zone1End is taxed by the lower zone
C17_AtZone1End ==
  /\ build = "source"
  /\ trace = << "calculateTarif" >>
  /\ input.threshold = TAX_2026.zone1End
  /\ input.zve = 100 * TAX_2026.zone1End + 99
  /\ result.tarif > 0
  /\ result.tarif < 101500

\* C18: the tariff is floored to whole euros, so the income tax of every
\* computed result is a non-negative whole number of euros, whatever the class.
C18_LohnsteuerWholeEuros ==
  result.status = "ok" => (result.lohnsteuer >= 0 /\ result.lohnsteuer % 100 = 0)

\* class IV at 100000 under the default profile: an income tax with cents
C18_LohnsteuerWithCents ==
  /\ build = "compiled"
  /\ input.steuerklasse = "IV"
  /\ input.bruttoJahr.v = 10000000
  /\ result.status = "ok"
  /\ result.lohnsteuer % 100 = 45

\* calculateTarif of build b for a base of cents; k the constants in use
TarifOf(b, zve, k) == IF b = "source" THEN calculateTarif(zve) ELSE calculateTarifProfile(zve, k)

\* UP56(x) = max(2 * (calculateTarif(1.25 x) - calculateTarif(0.75 x)), floor(0.14 x)), x in euros
UP56(b, x, k) == Max(2 * (TarifOf(b, 125 * x, k) - TarifOf(b, 75 * x, k)), ((14 * x) \div 100) * 100)

\* st after the steps above stkl5Grenze2 and stkl5Grenze3
FiveSixAboveGrenze2(b, zzx, k) ==
  IF zzx > k.stkl5Grenze3
    THEN FloorEuro(Dec(UP56(b, k.stkl5Grenze2, k) + 42 * (k.stkl5Grenze3 - k.stkl5Grenze2) + 45 * (zzx - k.stkl5Grenze3), 0))
  ELSE IF zzx > k.stkl5Grenze2
    THEN FloorEuro(Dec(UP56(b, k.stkl5Grenze2, k) + 42 * (zzx - k.stkl5Grenze2), 0))
  ELSE UP56(b, zzx, k)

\* st after the comparison above stkl5Grenze1, floored and not below 0
FiveSixReturned(b, zzx, k, st) ==
  IF zzx > k.stkl5Grenze1
    THEN Max(0, FloorEuro(Dec(Max(st, FloorEuro(Dec(UP56(b, k.stkl5Grenze1, k) + 42 * (zzx - k.stkl5Grenze1), 0))), 0)))
  ELSE Max(0, FloorEuro(Dec(st, 0)))

\* the constants a computed request ran with
ConstantsInUse == IF build = "source" THEN TAX_2026 ELSE getTaxProfileConfig(input.taxProfileId)

\* C19: for classes V and VI the income tax is the outcome of the class V/VI
\* procedure on the rounded base, and calculateTax calls
\* calculateTarifClassFiveSix for it and neither calculateTarif nor
\* calculateSplittingTarif.
C19_ClassFiveSixProcedure ==
  (result.status = "ok" /\ (input.steuerklasse = "V" \/ input.steuerklasse = "VI"))
  => /\ result.lohnsteuer =
          FiveSixReturned(build, result.zvEForLohnsteuer \div 100, ConstantsInUse,
            FiveSixAboveGrenze2(build, result.zvEForLohnsteuer \div 100, ConstantsInUse))
     /\ \E i \in 1..Len(trace) : trace[i] = "calculateTarifClassFiveSix"
     /\ \A i \in 1..Len(trace) : trace[i] # "calculateTarif" /\ trace[i] # "calculateSplittingTarif"

\* class VI at 40000: the base lies between stkl5Grenze1 and stkl5Grenze2 and
\* the second candidate is the larger one
C19_ClassSixSecondCandidate ==
  /\ input.steuerklasse = "VI"
  /\ input.bruttoJahr.v = 4000000
  /\ result.status = "ok"
  /\ result.zvEForLohnsteuer > 100 * ConstantsInUse.stkl5Grenze1
  /\ result.zvEForLohnsteuer <= 100 * ConstantsInUse.stkl5Grenze2
  /\ result.lohnsteuer > FiveSixAboveGrenze2(build, result.zvEForLohnsteuer \div 100, ConstantsInUse)

\* C20: the base of the income tax is the largest multiple of 36 euros that
\* does not exceed the taxable income; classes I, II and IV get the tariff of
\* this base; and the same request in class IV instead of class I gets the
\* same result in every field but steuerklasse.
C20_StandardProcedure ==
  [][ /\ result.status = "ok" =>
           /\ result.zvEForLohnsteuer % 3600 = 0
           /\ result.zvEForLohnsteuer <= result.zuVersteuerndesEinkommen
           /\ result.zuVersteuerndesEinkommen - result.zvEForLohnsteuer < 3600
           /\ (input.steuerklasse = "I" \/ input.steuerklasse = "II" \/ input.steuerklasse = "IV")
                => result.lohnsteuer = TarifOf(build, result.zvEForLohnsteuer, ConstantsInUse)
      /\ ( /\ result.status = "ok"
           /\ input.steuerklasse = "I"
           /\ input' = [input EXCEPT !.steuerklasse = "IV"] )
         => result' = [result EXCEPT !.steuerklasse = "IV"]
    ]_vars

\* class IV at 50000: the taxable income is not a multiple of 36 and is
\* rounded down before the tariff is applied
C20_ClassFourRoundedDown ==
  /\ input.steuerklasse = "IV"
  /\ input.bruttoJahr.v = 5000000
  /\ result.status = "ok"
  /\ result.steuerklasse = "IV"
  /\ result.zvEForLohnsteuer < result.zuVersteuerndesEinkommen
  /\ result.lohnsteuer > 0

\* C21: the taxable income is gross income less the larger of the employee
\* allowance and the declared expenses, the special-expenses allowance (both 0
\* in class VI), the single-parent relief in class II and the
\* vorsorgepauschale, and not below 0; declared expenses up to the allowance
\* give the result of declared expenses of 0.
C21_TaxableBase ==
  result.status = "ok" =>
    /\ result.zuVersteuerndesEinkommen >= 0
    /\ result.zuVersteuerndesEinkommen =
         Max(0, input.bruttoJahr.v
                - (IF input.steuerklasse = "VI" THEN 0 ELSE Max(ConstantsInUse.werbungskostenPauschbetrag, input.werbungskosten.v))
                - (IF input.steuerklasse = "VI" THEN 0 ELSE ConstantsInUse.sonderausgabenPauschbetrag)
                - (IF input.steuerklasse = "II" THEN ConstantsInUse.entlastungsbetragAlleinerziehende ELSE 0)
                - result.vorsorgepauschale)
    /\ input.werbungskosten.v <= 123000 =>
         result = TaxOf(build, [input EXCEPT !.werbungskosten = ScenarioWerbungskosten])

\* declared expenses of 1000, below the allowance of 1230, in class I
C21_DeclaredBelowAllowance ==
  /\ input.werbungskosten.v = 100000
  /\ input.steuerklasse = "I"
  /\ input.bruttoJahr.v = 5000055
  /\ result.status = "ok"
  /\ result.werbungskostenPauschbetrag = 123000
  /\ result.zuVersteuerndesEinkommen > 0

\* gross incomes at the ceilings of C22 (101400 and 69750)
AtPensionCeiling == Fin(10140000)

AtHealthCeiling == Fin(6975000)

\* the long-term-care rate a computed request ran with, per 10000
PVSatzInUse == IF build = "source" THEN calculatePVSatz(input.alter.v, input.kinderAnzahl.v) ELSE calculatePVSatzProfile(input.alter.v, input.kinderAnzahl.v, ConstantsInUse)

\* the four contributions of two results are the same
SameContributions(r, q) == r.rentenversicherung = q.rentenversicherung /\ r.arbeitslosenversicherung = q.arbeitslosenversicherung /\ r.krankenversicherung = q.krankenversicherung /\ r.pflegeversicherung = q.pflegeversicherung

\* C22: each contribution is half its rate on gross income up to its ceiling,
\* rounded to cents, and their total is their sum; a gross income at or above
\* a ceiling gives the contribution of the ceiling; tax class and the
\* church-tax fields have no influence.
C22_ContributionsCapped ==
  result.status = "ok" =>
    /\ result.rentenversicherung = RoundCents(Scale(Min(input.bruttoJahr.v, 10140000), 93, 1000))
    /\ result.arbeitslosenversicherung = RoundCents(Scale(Min(input.bruttoJahr.v, 10140000), 13, 1000))
    /\ result.krankenversicherung = RoundCents(Scale(Min(input.bruttoJahr.v, 6975000), 1460 + input.zusatzbeitrag.v, 20000))
    /\ result.pflegeversicherung = RoundCents(Scale(Min(input.bruttoJahr.v, 6975000), PVSatzInUse, 10000))
    /\ result.gesamtSozialabgaben = result.rentenversicherung + result.arbeitslosenversicherung + result.krankenversicherung + result.pflegeversicherung
    /\ input.bruttoJahr.v >= 10140000 =>
         TaxOf(build, [input EXCEPT !.bruttoJahr = AtPensionCeiling]).rentenversicherung = result.rentenversicherung
    /\ input.bruttoJahr.v >= 10140000 =>
         TaxOf(build, [input EXCEPT !.bruttoJahr = AtPensionCeiling]).arbeitslosenversicherung = result.arbeitslosenversicherung
    /\ input.bruttoJahr.v >= 6975000 =>
         TaxOf(build, [input EXCEPT !.bruttoJahr = AtHealthCeiling]).krankenversicherung = result.krankenversicherung
    /\ input.bruttoJahr.v >= 6975000 =>
         TaxOf(build, [input EXCEPT !.bruttoJahr = AtHealthCeiling]).pflegeversicherung = result.pflegeversicherung
    /\ SameContributions(result, TaxOf(build, [input EXCEPT !.steuerklasse = "VI", !.kirchensteuer = ~input.kirchensteuer, !.kirchensteuerSatz = 17 - input.kirchensteuerSatz]))

\* a gross income of 150000, above both ceilings
C22_AboveBothCeilings ==
  /\ input.bruttoJahr.v = 15000000
  /\ input.zusatzbeitrag.v = 290
  /\ result.status = "ok"
  /\ result.rentenversicherung = 943020
  /\ result.krankenversicherung = 610313

\* C23: the long-term-care rate is 1.8 %, plus 0.6 % exactly when the age is
\* at least 23 and there is no child, less 0.25 % for each child after the
\* first, at most four times, and never below 1.7 % (rates per 10000).
C23_PVSatzFormula ==
  trace = << "calculatePVSatz" >> =>
    /\ result.pvSatz = Max(170, 180 + (IF input.alter >= 23 /\ input.kinderAnzahl = 0 THEN 60 ELSE 0) - 25 * Max(0, Min(input.kinderAnzahl - 1, 4)))
    /\ result.pvSatz >= 170
    /\ result.pvSatz > 180 <=> (input.alter >= 23 /\ input.kinderAnzahl = 0)
    /\ input.kinderAnzahl = 1 => result.pvSatz = 180

\* no child at the age of 22: no surcharge
C23_NoSurchargeAt22 ==
  /\ trace = << "calculatePVSatz" >>
  /\ input.alter = 22
  /\ input.kinderAnzahl = 0
  /\ result.pvSatz = 180

\* the rate a build returns for an age and a number of children
PVSatzOf(b, alter, kinderAnzahl) == IF b = "source" THEN calculatePVSatz(alter, kinderAnzahl) ELSE calculatePVSatzProfile(alter, kinderAnzahl, DefaultTaxConfig)

\* C30: the long-term-care rate takes three values only: 2.4 % (at least 23
\* and no child), 1.8 % (no child under 23, or one child) and 1.7 % (two or
\* more children); it is the same for every number of children from two on
\* and never rises with one more child.
C30_ThreeRates ==
  trace = << "calculatePVSatz" >> =>
    /\ result.pvSatz = (IF input.kinderAnzahl >= 2 THEN 170 ELSE IF input.kinderAnzahl = 0 /\ input.alter >= 23 THEN 240 ELSE 180)
    /\ input.kinderAnzahl >= 2 => result.pvSatz = PVSatzOf(build, input.alter, 2)
    /\ PVSatzOf(build, input.alter, input.kinderAnzahl + 1) <= result.pvSatz

\* six children: the four reductions counted would give 0.8 %, the minimum
\* gives 1.7 %
C30_FloorWithSixChildren ==
  /\ trace = << "calculatePVSatz" >>
  /\ input.kinderAnzahl = 6
  /\ input.alter = 25
  /\ result.pvSatz = 170

\* the solidarity surcharge a build returns for a lohnsteuer
SoliOf(b, lohnsteuer) == IF b = "source" THEN calculateSoli(lohnsteuer) ELSE calculateSoliProfile(lohnsteuer, DefaultTaxConfig)

\* C24: calculateSoli is 0 up to soliFreigrenze and otherwise the smaller of
\* lohnsteuer x soliSatz and (lohnsteuer - soliFreigrenze) x
\* soliMinderungssatz, rounded to the cent; it never exceeds the rounded
\* flat-rate amount and does not fall when lohnsteuer rises.
C24_SoliFormula ==
  trace = << "calculateSoli" >> =>
    LET l == input.lohnsteuer
        soli == result.solidaritaetszuschlag
        fullSoli == Scale(l, TAX_2026.soliSatz, 1000)
        minderungSoli == Scale(l - TAX_2026.soliFreigrenze, TAX_2026.soliMinderungssatz, 1000)
    IN  /\ l <= TAX_2026.soliFreigrenze => soli = 0
        /\ l > TAX_2026.soliFreigrenze => soli = RoundCents(DecMin(fullSoli, minderungSoli))
        /\ soli <= RoundCents(fullSoli)
        /\ soli <= SoliOf(build, l + 100)

\* six euros above the threshold the source build returns one euro
C24_WholeEuroSoli ==
  /\ build = "source"
  /\ trace = << "calculateSoli" >>
  /\ input.lohnsteuer = TAX_2026.soliFreigrenze + 600
  /\ result.solidaritaetszuschlag = 100

\* C25: the kirchensteuer of a result is 0 when the request's flag is false,
\* whatever the rate; with the flag set it is lohnsteuer x kirchensteuerSatz
\* rounded to the cent, a function of lohnsteuer, flag and rate alone.
C25_Kirchensteuer ==
  result.status = "ok" =>
    /\ ~input.kirchensteuer => result.kirchensteuer = 0
    /\ input.kirchensteuer => result.kirchensteuer = RoundCents(Scale(result.lohnsteuer, input.kirchensteuerSatz, 100))


\* lohnsteuer 6795 at 9 %: 611.55 by the claim, 612 in the source build
C25_WholeEuroKirchensteuer ==
  /\ build = "source"
  /\ result.status = "ok"
  /\ input.kirchensteuer
  /\ input.kirchensteuerSatz = 9
  /\ result.lohnsteuer = 679500
  /\ result.kirchensteuer = 61200

\* C26: vorsorgepauschale is rentenversicherung + 0.235 x
\* arbeitslosenversicherung + krankenversicherung + pflegeversicherung of the
\* result (the rounded contributions), rounded to the whole euro; it is a
\* whole non-negative number of euros, and it is the amount taken off the
\* taxable base.
C26_Vorsorgepauschale ==
  result.status = "ok" =>
    /\ result.vorsorgepauschale = RoundEuro(DecAdd(Dec(result.rentenversicherung + result.krankenversicherung + result.pflegeversicherung, 0), Scale(result.arbeitslosenversicherung, 235, 1000)))
    /\ result.vorsorgepauschale >= 0
    /\ result.vorsorgepauschale % 100 = 0
    /\ result.zuVersteuerndesEinkommen > 0 =>
         result.zuVersteuerndesEinkommen + result.vorsorgepauschale =
           input.bruttoJahr.v
           - (IF input.steuerklasse = "VI" THEN 0 ELSE Max(ConstantsInUse.werbungskostenPauschbetrag, input.werbungskosten.v) + ConstantsInUse.sonderausgabenPauschbetrag)
           - (IF input.steuerklasse = "II" THEN ConstantsInUse.entlastungsbetragAlleinerziehende ELSE 0)

\* gross 50000.55: the contributions sum to 10225.11 + 0.235 x 650.01, the
\* deduction is 10378 and the base is 50000.55 - 1230 - 36 - 10378
C26_RoundedToEuro ==
  /\ result.status = "ok"
  /\ input.bruttoJahr.v = 5000055
  /\ input.steuerklasse = "I"
  /\ input.werbungskosten.v = 0
  /\ input.kinderAnzahl.v = 0
  /\ input.alter.v = 23
  /\ input.zusatzbeitrag.v = 290
  /\ result.vorsorgepauschale = 1037800
  /\ result.zuVersteuerndesEinkommen = 3835655

\* C27: in every result gesamtSteuern = lohnsteuer + solidaritaetszuschlag +
\* kirchensteuer, nettoJahr = bruttoJahr - gesamtSteuern - gesamtSozialabgaben
\* to the cent, nettoMonat = nettoJahr / 12 rounded to the cent, and for a
\* positive bruttoJahr steuerSatz and abgabenSatz are the taxes and all
\* deductions as shares of bruttoJahr and nettoQuote is the rest of 100 %.
C27_AccountingIdentities ==
  result.status = "ok" =>
    /\ result.gesamtSteuern = result.lohnsteuer + result.solidaritaetszuschlag + result.kirchensteuer
    /\ result.nettoJahr = result.bruttoJahr - result.gesamtSteuern - result.gesamtSozialabgaben
    /\ result.nettoJahr - 12 * result.nettoMonat \in -6..5
    /\ result.bruttoJahr = input.bruttoJahr.v
    /\ result.bruttoJahr > 0 =>
         /\ result.steuerSatz = Rate(result.gesamtSteuern, result.bruttoJahr)
         /\ result.abgabenSatz = Rate(result.gesamtSteuern + result.gesamtSozialabgaben, result.bruttoJahr)
         /\ result.nettoQuote.den = result.abgabenSatz.den
         /\ result.nettoQuote.num = result.abgabenSatz.den - result.abgabenSatz.num

\* gross 50000 in class I with church tax at 9 %: taxes 7407, contributions
\* 10875, net 31718 a year and 2643.17 a month
C27_NetOfFiftyThousand ==
  /\ build = "source"
  /\ result.status = "ok"
  /\ result.bruttoJahr = 5000000
  /\ result.gesamtSteuern = 740700
  /\ result.gesamtSozialabgaben = 1087500
  /\ result.nettoJahr = 3171800
  /\ result.nettoMonat = 264317
  /\ result.nettoQuote.num = 3171800

\* the zone constants of the build for a caller's profile
ZoneConstantsOf(b, taxProfileId) == IF b = "source" THEN SourceZoneConstants ELSE getTaxProfileConfig(taxProfileId)

Zone4Rate == Dec(42, 0)

Zone5Rate == Dec(45, 0)

\* the request of a point of the progression series, before its income is set
ProgressionPointRequest == [bruttoJahr |-> Fin(0), taxProfileId |-> Undefined, steuerklasse |-> "I", kirchensteuer |-> FALSE, kirchensteuerSatz |-> 9, zusatzbeitrag |-> Fin(170), werbungskosten |-> Fin(0), kinderAnzahl |-> Fin(0), alter |-> Fin(30)]

\* the derivative, in percent, of the zone formulas at x euros
TarifDerivative(x, k) ==
  CASE ZoneOf(x, k) = 0 -> DecZero
    [] ZoneOf(x, k) = 1 -> marginalRate(2 * k.zone2CoeffA, x - k.grundfreibetrag, 1400)
    [] ZoneOf(x, k) = 2 -> marginalRate(2 * k.zone3CoeffA, x - k.zone1End, 2397)
    [] ZoneOf(x, k) = 3 -> Zone4Rate
    [] ZoneOf(x, k) = 4 -> Zone5Rate

\* a point of the progression series for an income and the result computed for it
IsProgressionTuple(t, einkommen, r, k) ==
  /\ t.einkommen = einkommen
  /\ r.status = "ok"
  /\ t.durchschnittssteuersatz = (IF einkommen > 0 THEN Rate(r.lohnsteuer, einkommen \div 100) ELSE ZeroRate)
  /\ t.grenzsteuersatz = TarifDerivative(r.zuVersteuerndesEinkommen \div 100, k)
  /\ r.zuVersteuerndesEinkommen % 100 = 0
  /\ DecLeq(DecZero, t.grenzsteuersatz)
  /\ DecLeq(t.grenzsteuersatz, Zone5Rate)

\* C28: generateProgressionData returns 301 points for einkommen 0, 1000,
\* ..., 300000 in this order, each computed for class I without church tax,
\* zusatzbeitrag 1.7, age 30 and no children; durchschnittssteuersatz is
\* lohnsteuer / einkommen x 100 (0 at 0), grenzsteuersatz the derivative of
\* the zone formula at zuVersteuerndesEinkommen, within [0, 45] and never
\* falling along the series.
C28_ProgressionSeries ==
  \A c \in Callers :
    ( /\ result[c].fn = "generateProgressionData"
      /\ (build = "source" \/ input[c].taxProfileId = Undefined \/ input[c].taxProfileId \in KnownTaxProfileIds) )
    => /\ result[c].value.status = "ok"
       /\ Len(result[c].value.data) = 301
       /\ \A i \in 1..301 :
            IsProgressionTuple(result[c].value.data[i], 100000 * (i - 1),
                               TaxOf(build, [ProgressionPointRequest EXCEPT !.bruttoJahr = Fin(100000 * (i - 1)), !.taxProfileId = input[c].taxProfileId]),
                               ZoneConstantsOf(build, input[c].taxProfileId))
       /\ \A i \in 1..300 :
            DecLeq(result[c].value.data[i].grenzsteuersatz, result[c].value.data[i + 1].grenzsteuersatz)

\* the series of the source build: 0 % at no income, between 24 % and 42 % at
\* 50000, 42 % at 100000 and 45 % at 300000
C28_ThroughAllZones ==
  /\ build = "source"
  /\ result[1].fn = "generateProgressionData"
  /\ result[1].value.status = "ok"
  /\ result[1].value.data[1].grenzsteuersatz = DecZero
  /\ result[1].value.data[51].einkommen = 5000000
  /\ result[1].value.data[51].grenzsteuersatz.c \in 24..41
  /\ result[1].value.data[101].grenzsteuersatz = Zone4Rate
  /\ result[1].value.data[301].grenzsteuersatz = Zone5Rate
  /\ result[1].value.data[301].durchschnittssteuersatz.den = 300000

\* the lohnsteuer of the request in hand computed in another tax class
LohnsteuerInClass(k) == TaxOf(build, [input EXCEPT !.steuerklasse = k]).lohnsteuer

\* C29: for a valid request and its copies in the other tax classes,
\* lohnsteuer(III) <= lohnsteuer(I) = lohnsteuer(IV) <= lohnsteuer(V) <=
\* lohnsteuer(VI).
C29_ClassOrdering ==
  result.status = "ok" =>
    /\ LohnsteuerInClass("III") <= LohnsteuerInClass("I")
    /\ LohnsteuerInClass("I") = LohnsteuerInClass("IV")
    /\ LohnsteuerInClass("IV") <= LohnsteuerInClass("V")
    /\ LohnsteuerInClass("V") <= LohnsteuerInClass("VI")


\* gross 50000.55 computed in class V: the five classes give four different
\* amounts, in the order of the claim
C29_StrictOrderAtFiftyThousand ==
  /\ result.status = "ok"
  /\ input.bruttoJahr.v = 5000055
  /\ input.steuerklasse = "V"
  /\ result.lohnsteuer = LohnsteuerInClass("V")
  /\ 0 < LohnsteuerInClass("III")
  /\ LohnsteuerInClass("III") < LohnsteuerInClass("I")
  /\ LohnsteuerInClass("I") < result.lohnsteuer
  /\ result.lohnsteuer < LohnsteuerInClass("VI")

====
